---------------------------- MODULE Spec2Model ----------------------------
(***************************************************************************)
(* State-machine model of the rustico NES emulator core.                   *)
(*                                                                         *)
(* Part 1: the NROM mapper (core/src/mmc/nrom.rs): a cartridge is loaded   *)
(* with Nrom::from_ines and the device is then driven through the Mapper   *)
(* contract (debug_read_cpu, write_cpu, debug_read_ppu, write_ppu).        *)
(*                                                                         *)
(* Part 2: the APU noise channel (src/apu/noise.rs): NoiseChannelState is  *)
(* clocked, sampled, recorded and muted while the APU writes its           *)
(* registers.                                                              *)
(*                                                                         *)
(* Part 3: the emulation worker (egui/src/worker.rs): worker_main drains   *)
(* the command channel, dispatches events depth-first and runs scanlines   *)
(* while the shared audio queue is below its low-water mark; the audio     *)
(* callback drains the queue.                                              *)
(*                                                                         *)
(* Part 4: the piano roll window (src/piano_roll_window.rs): the window    *)
(* handles tick events, integer settings and mouse clicks; its slice       *)
(* history is filled by update and clicks on the surfboard ask for a       *)
(* channel to be muted or unmuted.                                         *)
(***************************************************************************)
EXTENDS Integers, Sequences, FiniteSets, TLC

(***************************************************************************)
(* Bounds of the model.                                                    *)
(***************************************************************************)
\* largest capacity, in bytes, of a cartridge memory block (0..MaxSize)
MaxSize == 2
\* largest number of write_cpu / write_ppu calls in one behaviour
MaxOps == 2
\* largest number of clock() calls on the noise channel in one behaviour
MaxNoiseClocks == 16
\* largest number of record_current_output() calls in one behaviour
MaxRecords == 2
\* number of clock() calls the shift-register sequence is followed for
MaxLfsrClocks == 32768
\* largest number of commands the application sends in one behaviour
MaxCommands == 2
\* deepest dispatch_event call whose handlers still return follow-ups
MaxCascadeDepth == 2
\* number of latest shell notifications and stdout lines kept
MaxShell == 2
MaxStdout == 2
\* scanline steps of one step_emulator call are counted up to this number
StepsCounted == 2
\* largest period held in the period register, and clock() calls made on it
MaxPeriod == 3
MaxPeriodClocks == 16
\* clock() calls are counted up to this number where every register value
\* is followed
ClocksCounted == 1
\* the first runs of samples appended to the audio queue are told apart
RunsTracked == 4
\* largest number of events the piano roll window handles in one behaviour
MaxPianoEvents == 4

(***************************************************************************)
(* Program constants.                                                      *)
(***************************************************************************)
\* vec![0u8; 0x1000]: the device's nametable store
VramSize == 4096

Sizes == 0 .. MaxSize
Byte == 0 .. 255

\* Option<u8>
None == << >>
Some(b) == << b >>
IsOptionU8(r) == r = None \/ (Len(r) = 1 /\ r[1] \in Byte)

\* bitwise helpers on u16 values
Bit(a, n) == (a \div (2 ^ n)) % 2
Low(a, n) == a % (2 ^ n)

(***************************************************************************)
(* MemoryBlock: a byte array with address-wrapping access (spec 3, 4.1).   *)
(* A block is the sequence of its bytes; offset k is element k + 1.        *)
(***************************************************************************)
wrapping_read(block, address) ==
    IF Len(block) = 0 THEN None
    ELSE Some(block[(address % Len(block)) + 1])

wrapping_write(block, address, data) ==
    IF Len(block) = 0 THEN block
    ELSE [block EXCEPT ![(address % Len(block)) + 1] = data]

(***************************************************************************)
(* Mirroring resolver (spec 4.2): nametable address -> offset into VRAM.   *)
(* Horizontal discards address bit 10, Vertical discards bit 11; both map  *)
(* into a 2 KiB region.  FourScreen keeps the low 12 bits.                 *)
(***************************************************************************)
horizontal_mirroring(address) == Bit(address, 11) * 1024 + Low(address, 10)

vertical_mirroring(address) == Bit(address, 10) * 1024 + Low(address, 10)

four_banks(address) == Low(address, 12)

Mirroring == {"Horizontal", "Vertical", "SingleScreenA", "SingleScreenB", "FourScreen"}

(***************************************************************************)
(* INesCartridge (spec 6): PRG-ROM bytes, optional PRG-RAM, CHR-ROM or     *)
(* CHR-RAM, a declared mirroring mode.                                     *)
(***************************************************************************)
PrgRomImage(n) == [i \in 1 .. n |-> 64 + i]
ChrRomImage(n) == [i \in 1 .. n |-> 192 + i]
Zeroes(n) == [i \in 1 .. n |-> 0]

(***************************************************************************)
(* Vec<u8> created by vec![0u8; n]: its length and the cells that have     *)
(* been assigned; every other cell still holds the initial 0.              *)
(***************************************************************************)
ZeroVec(n) == [len |-> n, cells |-> [j \in {} |-> 0]]

VecGet(vec, i) == IF i \in DOMAIN vec.cells THEN vec.cells[i] ELSE 0

VecSet(vec, i, v) ==
    [vec EXCEPT !.cells =
        [j \in (DOMAIN vec.cells) \cup {i} |-> IF j = i THEN v ELSE vec.cells[j]]]

Ok(v) == [ok |-> TRUE, val |-> v]
Err(msg) == [ok |-> FALSE, val |-> msg]

AllCartridges ==
    [prg_rom_size : Sizes,
     prg_ram_size : Sizes,
     prg_ram_shape_ok : BOOLEAN,
     chr_kind : {"rom", "ram"},
     chr_size : Sizes,
     mirroring : Mirroring]

prg_rom_block(c) == PrgRomImage(c.prg_rom_size)

prg_ram_block(c) ==
    IF c.prg_ram_shape_ok THEN Ok(Zeroes(c.prg_ram_size))
    ELSE Err("unsupported PRG RAM shape")

chr_block(c) ==
    IF c.chr_kind = "rom"
    THEN IF c.chr_size = 0 THEN Err("CHR ROM declared but none supplied")
         ELSE Ok(ChrRomImage(c.chr_size))
    ELSE Ok(Zeroes(c.chr_size))

(***************************************************************************)
(* Nrom                                                                    *)
(***************************************************************************)
NoDevice ==
    [prg_rom |-> << >>, prg_ram |-> << >>, chr |-> << >>,
     mirroring |-> "Horizontal", vram |-> ZeroVec(0)]

\* mutant: the nametable store is sized for the console's 2 KiB only
from_ines_console_vram(c) ==
    IF ~prg_ram_block(c).ok THEN Err(prg_ram_block(c).val)
    ELSE IF ~chr_block(c).ok THEN Err(chr_block(c).val)
    ELSE Ok([prg_rom |-> prg_rom_block(c),
             prg_ram |-> prg_ram_block(c).val,
             chr |-> chr_block(c).val,
             mirroring |-> c.mirroring,
             vram |-> ZeroVec(2048)])

\* mutant: a FourScreen cartridge is rejected at load time
from_ines_rejects_four_screen(c) ==
    IF ~prg_ram_block(c).ok THEN Err(prg_ram_block(c).val)
    ELSE IF ~chr_block(c).ok THEN Err(chr_block(c).val)
    ELSE IF c.mirroring = "FourScreen" THEN Err("four-screen VRAM not supplied")
    ELSE Ok([prg_rom |-> prg_rom_block(c),
             prg_ram |-> prg_ram_block(c).val,
             chr |-> chr_block(c).val,
             mirroring |-> c.mirroring,
             vram |-> ZeroVec(VramSize)])

\* mutant: a failed chr_block() is replaced by an empty block
from_ines_ignores_chr_error(c) ==
    IF ~prg_ram_block(c).ok THEN Err(prg_ram_block(c).val)
    ELSE Ok([prg_rom |-> prg_rom_block(c),
             prg_ram |-> prg_ram_block(c).val,
             chr |-> IF chr_block(c).ok THEN chr_block(c).val ELSE << >>,
             mirroring |-> c.mirroring,
             vram |-> ZeroVec(VramSize)])

from_ines(c) ==
    IF ~prg_ram_block(c).ok THEN Err(prg_ram_block(c).val)
    ELSE IF ~chr_block(c).ok THEN Err(chr_block(c).val)
    ELSE Ok([prg_rom |-> prg_rom_block(c),
             prg_ram |-> prg_ram_block(c).val,
             chr |-> chr_block(c).val,
             mirroring |-> c.mirroring,
             vram |-> ZeroVec(VramSize)])

mirroring(d) == d.mirroring

\* The cartridges the machine is started with: every cartridge that fails to
\* load; every PRG side (PRG-ROM size, PRG-RAM size) with the largest CHR-RAM
\* and Horizontal mirroring; every PPU side (CHR kind and size, mirroring
\* mode) with the largest PRG-ROM and PRG-RAM.
Cartridges ==
    {c \in AllCartridges :
        \/ ~from_ines(c).ok
        \/ c.chr_kind = "ram" /\ c.chr_size = MaxSize /\ c.mirroring = "Horizontal"
        \/ c.prg_rom_size = MaxSize /\ c.prg_ram_size = MaxSize}

\* mutant: the PRG-RAM window ends one address early (0x6000 .. 0x7FFE)
debug_read_cpu_short_window(d, address) ==
    IF address >= 24576 /\ address < 32767
    THEN wrapping_read(d.prg_ram, address - 24576)
    ELSE IF address >= 32768 /\ address <= 65535
    THEN wrapping_read(d.prg_rom, address - 32768)
    ELSE None

debug_read_cpu(d, address) ==
    IF address >= 24576 /\ address <= 32767
    THEN wrapping_read(d.prg_ram, address - 24576)
    ELSE IF address >= 32768 /\ address <= 65535
    THEN wrapping_read(d.prg_rom, address - 32768)
    ELSE None

\* mutant: writes at 0x8000 .. 0xFFFF are stored into PRG-ROM
write_cpu_rom_writable(d, address, data) ==
    IF address >= 24576 /\ address <= 32767
    THEN [d EXCEPT !.prg_ram = wrapping_write(d.prg_ram, address - 24576, data)]
    ELSE IF address >= 32768 /\ address <= 65535
    THEN [d EXCEPT !.prg_rom = wrapping_write(d.prg_rom, address - 32768, data)]
    ELSE d

\* mutant: the PRG-RAM window starts one address late (0x6001 .. 0x7FFF)
write_cpu_late_window(d, address, data) ==
    IF address > 24576 /\ address <= 32767
    THEN [d EXCEPT !.prg_ram = wrapping_write(d.prg_ram, address - 24576, data)]
    ELSE d

write_cpu(d, address, data) ==
    IF address >= 24576 /\ address <= 32767
    THEN [d EXCEPT !.prg_ram = wrapping_write(d.prg_ram, address - 24576, data)]
    ELSE d

\* mutant: the single-screen modes read the first nametable
ReadNametableIndex_single_first(d, address) ==
    CASE d.mirroring = "Horizontal" -> horizontal_mirroring(address)
      [] d.mirroring = "Vertical" -> vertical_mirroring(address)
      [] d.mirroring = "FourScreen" -> four_banks(address)
      [] OTHER -> address % 1024

\* mutant: the Horizontal and Vertical arms of the read are exchanged
ReadNametableIndex_swapped(d, address) ==
    CASE d.mirroring = "Horizontal" -> vertical_mirroring(address)
      [] d.mirroring = "Vertical" -> horizontal_mirroring(address)
      [] d.mirroring = "FourScreen" -> four_banks(address)
      [] OTHER -> -1

\* the match on self.mirroring in debug_read_ppu: the VRAM index read, or -1
\* for the modes of the default arm
ReadNametableIndex(d, address) ==
    CASE d.mirroring = "Horizontal" -> horizontal_mirroring(address)
      [] d.mirroring = "Vertical" -> vertical_mirroring(address)
      [] d.mirroring = "FourScreen" -> four_banks(address)
      [] OTHER -> -1

\* mutant: the Horizontal and Vertical arms of the write are exchanged
WriteNametableIndex_swapped(d, address) ==
    CASE d.mirroring = "Horizontal" -> vertical_mirroring(address)
      [] d.mirroring = "Vertical" -> horizontal_mirroring(address)
      [] d.mirroring = "FourScreen" -> four_banks(address)
      [] OTHER -> -1

\* mutant: FourScreen writes go through the Horizontal resolver
WriteNametableIndex_four_as_horizontal(d, address) ==
    CASE d.mirroring = "Horizontal" -> horizontal_mirroring(address)
      [] d.mirroring = "Vertical" -> vertical_mirroring(address)
      [] d.mirroring = "FourScreen" -> horizontal_mirroring(address)
      [] OTHER -> -1

\* the match on self.mirroring in write_ppu: the VRAM index written, or -1
WriteNametableIndex(d, address) ==
    CASE d.mirroring = "Horizontal" -> horizontal_mirroring(address)
      [] d.mirroring = "Vertical" -> vertical_mirroring(address)
      [] d.mirroring = "FourScreen" -> four_banks(address)
      [] OTHER -> -1

\* self.vram[i] panics when i is not below vram.len()
IndexPanics(d, i) == i >= d.vram.len

ReadPpuPanics(d, address) ==
    /\ address >= 8192 /\ address <= 16383
    /\ ReadNametableIndex(d, address) >= 0
    /\ IndexPanics(d, ReadNametableIndex(d, address))

WritePpuPanics(d, address) ==
    /\ address >= 8192 /\ address <= 16383
    /\ WriteNametableIndex(d, address) >= 0
    /\ IndexPanics(d, WriteNametableIndex(d, address))

debug_read_ppu(d, address) ==
    IF address >= 0 /\ address <= 8191
    THEN wrapping_read(d.chr, address)
    ELSE IF address >= 8192 /\ address <= 16383
    THEN IF ReadNametableIndex(d, address) < 0 \/ ReadPpuPanics(d, address)
         THEN None
         ELSE Some(VecGet(d.vram, ReadNametableIndex(d, address)))
    ELSE None

write_ppu(d, address, data) ==
    IF address >= 0 /\ address <= 8191
    THEN [d EXCEPT !.chr = wrapping_write(d.chr, address, data)]
    ELSE IF address >= 8192 /\ address <= 16383
    THEN IF WriteNametableIndex(d, address) < 0 \/ WritePpuPanics(d, address)
         THEN d
         ELSE [d EXCEPT !.vram = VecSet(d.vram, WriteNametableIndex(d, address), data)]
    ELSE d

(***************************************************************************)
(* The NROM state machine.                                                 *)
(***************************************************************************)
(***************************************************************************)
(* Part 2: the noise channel.                                              *)
(***************************************************************************)

\* RingBuffer (spec 3: "a circular sample history buffer"): the samples it
\* holds, oldest first; a push into a full buffer drops the oldest
RingBuffer_new(capacity) == [capacity |-> capacity, samples |-> << >>]

RingBuffer_push(rb, sample) ==
    IF Len(rb.samples) < rb.capacity
    THEN [rb EXCEPT !.samples = Append(rb.samples, sample)]
    ELSE [rb EXCEPT !.samples = Append(Tail(rb.samples), sample)]

\* VolumeEnvelopeState (spec 4.4): the envelope's current volume, 0..15
VolumeEnvelopeState_new == [volume |-> 0]
current_volume(envelope) == envelope.volume

\* LengthCounterState (spec 4.4): counts down to silence
LengthCounterState_new == [length |-> 0]

NoiseChannelState_new(channel_name, chip_name) ==
    [name |-> channel_name,
     chip |-> chip_name,
     debug_disable |-> FALSE,
     debug_buffer |-> ZeroVec(4096),
     output_buffer |-> RingBuffer_new(32768),
     length |-> 0,
     length_halt_flag |-> FALSE,
     envelope |-> VolumeEnvelopeState_new,
     length_counter |-> LengthCounterState_new,
     mode |-> 0,
     period_initial |-> 0,
     period_current |-> 0,
     shift_register |-> 1]

\* x | (feedback << 14) on u16 values
OrBit14(x, feedback) ==
    IF feedback = 1 /\ Bit(x, 14) = 0 THEN x + 16384 ELSE x

\* a ^ b on single bits
Xor1(a, b) == (a + b) % 2

\* variant: the mode is ignored and bit 6 is always the second tap
Feedback_tap6(s) ==
    Xor1(Bit(s.shift_register, 0), Bit(s.shift_register, 6))

\* the feedback bit clock() computes
Feedback(s) ==
    IF s.mode = 1
    THEN Xor1(Bit(s.shift_register, 0), Bit(s.shift_register, 6))
    ELSE Xor1(Bit(s.shift_register, 0), Bit(s.shift_register, 1))

\* variant: the period counter is not reloaded when the register advances
clock_without_reload(s) ==
    IF s.period_current = 0
    THEN [s EXCEPT !.shift_register = OrBit14(s.shift_register \div 2, Feedback(s))]
    ELSE [s EXCEPT !.period_current = s.period_current - 1]

\* variant: the register advances one clock early, when the counter is at 1
clock_reloads_at_one(s) ==
    IF s.period_current <= 1
    THEN [s EXCEPT !.period_current = s.period_initial,
                   !.shift_register = OrBit14(s.shift_register \div 2, Feedback(s))]
    ELSE [s EXCEPT !.period_current = s.period_current - 1]

\* variant: the register is shifted and no feedback bit is put in
clock_shifts_in_zero(s) ==
    IF s.period_current = 0
    THEN [s EXCEPT !.period_current = s.period_initial,
                   !.shift_register = s.shift_register \div 2]
    ELSE [s EXCEPT !.period_current = s.period_current - 1]

\* variant: the timer clock also counts the length counter down
clock_ticks_length(s) ==
    LET t == IF s.length_counter.length > 0
             THEN [s EXCEPT !.length_counter.length = s.length_counter.length - 1]
             ELSE s
    IN  IF s.period_current = 0
        THEN [t EXCEPT !.period_current = s.period_initial,
                       !.shift_register = OrBit14(s.shift_register \div 2, Feedback(s))]
        ELSE [t EXCEPT !.period_current = s.period_current - 1]

clock(s) ==
    IF s.period_current = 0
    THEN [s EXCEPT !.period_current = s.period_initial,
                   !.shift_register = OrBit14(s.shift_register \div 2, Feedback(s))]
    ELSE [s EXCEPT !.period_current = s.period_current - 1]

\* variant: the register bit is added to the volume instead of scaling it
output_adds_volume(s) ==
    IF s.length_counter.length > 0
    THEN Bit(s.shift_register, 0) + current_volume(s.envelope)
    ELSE 0

\* variant: the length counter is not consulted
output_ignores_length(s) ==
    Bit(s.shift_register, 0) * current_volume(s.envelope)

output(s) ==
    IF s.length_counter.length > 0
    THEN Bit(s.shift_register, 0) * current_volume(s.envelope)
    ELSE 0

record_current_output(s) ==
    [s EXCEPT !.output_buffer = RingBuffer_push(s.output_buffer, output(s))]

min_sample(s) == 0

max_sample(s) == 15

muted(s) == s.debug_disable

\* variant: muting also zeroes the envelope
mute_silences_envelope(s) ==
    [s EXCEPT !.debug_disable = TRUE, !.envelope.volume = 0]

mute(s) == [s EXCEPT !.debug_disable = TRUE]

unmute(s) == [s EXCEPT !.debug_disable = FALSE]

(***************************************************************************)
(* Part 3: the emulation worker.                                           *)
(***************************************************************************)

\* the queue length below which step_emulator keeps running scanlines
LowWaterMark == 512
\* the scanline the PPU is left at when a frame is complete
FrameCompleteScanline == 242
\* the audio callback's block size (cpal::BufferSize::Fixed)
BlockSize == 256
\* the PPU's scanline counter wraps at the end of a frame (NTSC)
ScanlinesPerFrame == 262

\* events::Event (spec 3): hardware ticks and host commands, by tag
HardwareTicks == {"NesRunScanline", "ApuQuarterFrame", "ApuHalfFrame", "RequestFrame"}
ApplySettings ==
    {"ApplyBooleanSetting", "ApplyIntegerSetting", "ApplyFloatSetting",
     "ApplyStringSetting"}
HostCommands == ApplySettings \cup {"CartridgeLoaded", "SaveSram", "CloseApplication"}

\* numbers of samples the APU produces during one scanline (spec 4.6, 8:
\* a scanline step leaves at least one new sample)
ScanlineSamples == {128, 256}

\* follow-up lists the handlers outside the worker return (spec 4.5): a
\* scanline may end on a frame-sequencer tick, which is fed back into
\* dispatch; a command's handlers may answer with up to three follow-ups,
\* and the handler of a CartridgeLoaded or ApplyFloatSetting follow-up with
\* one more, down to MaxCascadeDepth
RuntimeStateResponses(event, depth) ==
    IF event = "NesRunScanline" THEN {<< >>, << "ApuQuarterFrame" >>}
    ELSE IF event \in HostCommands /\ depth = 0
    THEN {<< >>, << "CartridgeLoaded", "ApplyBooleanSetting" >>}
    ELSE IF event \in {"CartridgeLoaded", "ApplyFloatSetting"}
            /\ depth < MaxCascadeDepth
    THEN {<< >>, << "ApplyFloatSetting" >>}
    ELSE {<< >>}

GameWindowResponses(event, depth) ==
    IF event \in HostCommands /\ depth = 0
    THEN {<< >>, << "ApplyIntegerSetting" >>}
    ELSE {<< >>}

\* RuntimeState::new (spec 4.5): the part of the runtime state the worker
\* reads: the PPU's scanline counter and the samples the APU holds
RuntimeState_new ==
    [nes |-> [ppu |-> [current_scanline |-> 0],
              apu |-> [samples |-> 0]],
     settings |-> "default"]

\* RuntimeState::handle_event (spec 4.5, 4.6): NesRunScanline runs the
\* machine to the end of the scanline, which produces produced samples; an
\* Apply*Setting event is applied to the settings, kept here as the setting
\* applied last
RuntimeState_handle_event(rs, event, produced) ==
    IF event = "NesRunScanline"
    THEN [rs EXCEPT
            !.nes.ppu.current_scanline = (@ + 1) % ScanlinesPerFrame,
            !.nes.apu.samples = @ + produced]
    ELSE IF event \in ApplySettings
    THEN [rs EXCEPT !.settings = event]
    ELSE rs

\* ApuState::consume_samples (spec 4.6): hands over the samples produced
\* since the last call
consume_samples(rs) ==
    [rs |-> [rs EXCEPT !.nes.apu.samples = 0], samples |-> rs.nes.apu.samples]

\* a Sender or stdout, as the messages written to it: the latest keep of them
Sent(messages, message, keep) ==
    IF Len(messages) < keep
    THEN Append(messages, message)
    ELSE Append(Tail(messages), message)

\* a ShellEvent, by tag and payload
ShellEvent(kind, payload) == [kind |-> kind, payload |-> payload]

\* variant: a save that fails ends the session
save_sram_gives_up(w, file) ==
    IF file = "written"
    THEN [w EXCEPT !.stdout = Sent(@, "Wrote sram data", MaxStdout),
                   !.sram_file = "written"]
    ELSE [w EXCEPT !.stdout = Sent(@, "Couldn't open", MaxStdout),
                   !.exit_requested = TRUE]

\* the fields of Worker that worker.rs assigns, with what the worker writes
\* outside the process: its stdout and the battery RAM file, which is
\* "untouched", "created" (created or truncated, the data not written) or
\* "written"
Worker_new ==
    [exit_requested |-> FALSE, shell_tx |-> << >>, stdout |-> << >>,
     sram_file |-> "untouched"]

\* outcomes of File::create and write_all
FileOutcomes == {"create_err", "write_err", "written"}

\* Worker::save_sram: a failure of File::create is printed; the result of
\* write_all is dropped and the success message printed after it
save_sram(w, file) ==
    IF file = "create_err"
    THEN [w EXCEPT !.stdout = Sent(@, "Couldn't open", MaxStdout)]
    ELSE [w EXCEPT !.stdout = Sent(@, "Wrote sram data", MaxStdout),
                   !.sram_file = IF file = "written" THEN "written" ELSE "created"]

\* variant: CloseApplication is passed on to the shell as well
handle_event_forwards_close(w, rs, event, file) ==
    [events |-> << >>,
     worker |->
        CASE event = "CartridgeLoaded" ->
               [w EXCEPT !.shell_tx = Sent(@, ShellEvent("HasSram", "has_sram"), MaxShell)]
          [] event = "SaveSram" -> save_sram(w, file)
          [] event = "CloseApplication" ->
               [w EXCEPT !.stdout = Sent(@, "close requested", MaxStdout),
                         !.exit_requested = TRUE,
                         !.shell_tx =
                    Sent(@, ShellEvent("SettingsUpdated", rs.settings), MaxShell)]
          [] event \in ApplySettings ->
               [w EXCEPT !.shell_tx =
                    Sent(@, ShellEvent("SettingsUpdated", rs.settings), MaxShell)]
          [] OTHER -> w]

\* variant: CloseApplication is printed but the exit flag is left alone
handle_event_ignores_close(w, rs, event, file) ==
    [events |-> << >>,
     worker |->
        CASE event = "CartridgeLoaded" ->
               [w EXCEPT !.shell_tx = Sent(@, ShellEvent("HasSram", "has_sram"), MaxShell)]
          [] event = "SaveSram" -> save_sram(w, file)
          [] event = "CloseApplication" ->
               [w EXCEPT !.stdout = Sent(@, "close requested", MaxStdout)]
          [] event \in ApplySettings ->
               [w EXCEPT !.shell_tx =
                    Sent(@, ShellEvent("SettingsUpdated", rs.settings), MaxShell)]
          [] OTHER -> w]

\* Worker::handle_event, run when the runtime state rs has handled the
\* event: the worker after the event, and the events returned
handle_event(w, rs, event, file) ==
    [events |-> << >>,
     worker |->
        CASE event = "CartridgeLoaded" ->
               [w EXCEPT !.shell_tx = Sent(@, ShellEvent("HasSram", "has_sram"), MaxShell)]
          [] event = "SaveSram" -> save_sram(w, file)
          [] event = "CloseApplication" ->
               [w EXCEPT !.stdout = Sent(@, "close requested", MaxStdout),
                         !.exit_requested = TRUE]
          [] event \in ApplySettings ->
               [w EXCEPT !.shell_tx =
                    Sent(@, ShellEvent("SettingsUpdated", rs.settings), MaxShell)]
          [] OTHER -> w]

\* variant: the call that dispatches next is the outermost one that still
\* has responses, so a sibling starts before the previous cascade is done
Dispatching_outermost(st) ==
    IF \E i \in 1 .. Len(st) : st[i].next <= Len(st[i].responses)
    THEN CHOOSE i \in 1 .. Len(st) :
            /\ st[i].next <= Len(st[i].responses)
            /\ \A j \in 1 .. i - 1 : st[j].next > Len(st[j].responses)
    ELSE Len(st)

\* Worker::dispatch_event recurses: the call that runs is the innermost one
Dispatching(st) == Len(st)

\* variant: the exit check comes before step_emulator
\* Receiver::try_recv: a queued command is returned even after every sender
\* is gone; an empty channel reports whether a sender is left
try_recv(rx, held) ==
    IF rx # << >> THEN "Ok"
    ELSE IF held = "dropped" THEN "Disconnected" ELSE "Empty"

\* variant: a disconnected channel asks the worker to exit
TryRecvError_disconnect_exits(error, w) ==
    IF error = "Disconnected" THEN [w EXCEPT !.exit_requested = TRUE] ELSE w

\* process_incoming_events on Err(error): both arms return and nothing of
\* the worker is touched
TryRecvError(error, w) ==
    IF error = "Disconnected" THEN w ELSE w

AfterDrain_exit_first(pc, w) ==
    IF pc = "events"
    THEN IF w.exit_requested THEN "final_events" ELSE "poll_lock"
    ELSE "finished"

\* worker_main: process_incoming_events is followed by step_emulator inside
\* the loop and by the end of the thread after it
AfterDrain(pc, w) == IF pc = "events" THEN "poll_lock" ELSE "finished"

\* the events a handler returns, each with the handler it came from
Returned(events, handler) ==
    [i \in 1 .. Len(events) |-> [event |-> events[i], handler |-> handler]]

\* variant: the game window's responses are collected first
Collected_window_first(rs, gs, ws) == gs \o rs \o ws

\* dispatch_event: responses.extend(...) for the runtime state, the game
\* window and the worker, in this order
Collected(rs, gs, ws) == rs \o gs \o ws

\* variant: the for loop stops after the first response
Exhausted_after_first(call) == call.next > 1 \/ call.next > Len(call.responses)

\* the for loop of a dispatch_event call has gone through its responses
Exhausted(call) == call.next > Len(call.responses)

\* samples are followed through the queue in runs of the fewest samples a
\* scanline produces
RunLength ==
    CHOOSE m \in ScanlineSamples : \A x \in ScanlineSamples : m <= x
Runs(n) == n \div RunLength

\* the queue's content: the runs queued, front first, each named by its
\* place in the order of appending (places after RunsTracked share one
\* name); how many runs were appended, and the runs of samples written to
\* the sink, both up to RunsTracked
Fifo_new == [queue |-> << >>, appended |-> 0, sunk |-> << >>]

\* VecDeque::extend: the new runs go to the back
extend(f, k) ==
    [f EXCEPT
        !.queue = @ \o [i \in 1 .. k |->
                          IF f.appended + i <= RunsTracked
                          THEN f.appended + i ELSE RunsTracked + 1],
        !.appended = IF @ + k <= RunsTracked THEN @ + k ELSE RunsTracked]

\* variant: the block is taken from the back of the queue
drain_from_back(queue, k) ==
    [taken |-> SubSeq(queue, Len(queue) - k + 1, Len(queue)),
     rest |-> SubSeq(queue, 1, Len(queue) - k)]

\* VecDeque::drain(0..k): the first k runs are taken out, in order
drain(queue, k) ==
    [taken |-> SubSeq(queue, 1, k), rest |-> SubSeq(queue, k + 1, Len(queue))]

\* the callback copies what it drained to the output block
Written(f, taken) ==
    [f EXCEPT !.sunk = IF Len(@ \o taken) <= RunsTracked
                       THEN @ \o taken
                       ELSE SubSeq(@ \o taken, 1, RunsTracked)]

\* variant: a queue of exactly one block is drained as well
output_callback_drains_exact(queue, n) ==
    IF queue >= n
    THEN [queue |-> queue - n, data |-> [samples |-> n, equilibrium |-> 0]]
    ELSE [queue |-> queue, data |-> [samples |-> 0, equilibrium |-> n]]

\* variant: on a shortfall the output block is left as it was handed over
output_callback_leaves_block(queue, n) ==
    IF queue > n
    THEN [queue |-> queue - n, data |-> [samples |-> n, equilibrium |-> 0]]
    ELSE [queue |-> queue, data |-> [samples |-> 0, equilibrium |-> 0]]

\* the output callback of setup_audio_stream, called for a block of n slots
\* with queue samples queued: the queue it leaves and the block it has written
output_callback(queue, n) ==
    IF queue > n
    THEN [queue |-> queue - n, data |-> [samples |-> n, equilibrium |-> 0]]
    ELSE [queue |-> queue, data |-> [samples |-> 0, equilibrium |-> n]]

\* variant: the guard is kept, so the lock stays with its holder
drop_forgotten(guard) == guard

\* drop(audio_output_buffer): the MutexGuard is released
drop(guard) == "free"

\* variant: the loop runs on up to twice the mark
BelowMark_doubled(len) == len < 2 * LowWaterMark

\* variant: the loop stops once one block of the callback is queued
BelowMark_block(len) == len < BlockSize

\* variant: the mark itself still counts as below
BelowMark_inclusive(len) == len <= LowWaterMark

\* the loop test of step_emulator
BelowMark(len) == len < LowWaterMark

\* variant: the frame is taken to be complete one scanline early
FrameComplete_early(rs) ==
    rs.nes.ppu.current_scanline = FrameCompleteScanline - 1

\* the frame test of step_emulator
FrameComplete(rs) == rs.nes.ppu.current_scanline = FrameCompleteScanline

(***************************************************************************)
(* Part 4: the piano roll window.                                          *)
(***************************************************************************)

\* a u32 is kept as its two 16-bit halves
Half == 2 ^ 16

\* the u32 of a number below 2^31
U32(n) == [hi |-> n \div Half, lo |-> n % Half]

\* u32 subtraction as a build without overflow checks computes it
wrapping_sub(a, b) ==
    LET borrow == IF a.lo < b.lo THEN 1 ELSE 0
    IN  [hi |-> (a.hi - b.hi - borrow + 2 * Half) % Half,
         lo |-> (a.lo - b.lo + Half) % Half]

\* a < b on u32
Below(a, b) == a.hi < b.hi \/ (a.hi = b.hi /\ a.lo < b.lo)

\* the channels the window shows, each by its mute flag: the APU's, the
\* mapper's, and the APU's final mix
Channels_new(expansion) ==
    [apu |-> [i \in 1 .. 5 |-> FALSE],
     mapper |-> [i \in 1 .. expansion |-> FALSE],
     mix |-> FALSE]

collect_channels(ch) == ch.apu \o ch.mapper \o << ch.mix >>

\* midi_index("C<octave>")
midi_index_C(octave) == octave * 12

PianoRollWindow_new ==
    [canvas |-> [width |-> 1920, height |-> 1080],
     shown |-> FALSE,
     scale |-> 1,
     keys |-> 109,
     key_thickness |-> 16,
     key_length |-> 64,
     surfboard_height |-> 128,
     lowest_index |-> midi_index_C(0),
     highest_index |-> midi_index_C(9) + 1,
     time_slices |-> << >>,
     scroll_direction |-> "TopToBottom",
     polling_type |-> "ApuQuarterFrame",
     speed_multiplier |-> 6]

\* roll_width as a build without overflow checks computes it
roll_width(p) ==
    wrapping_sub(wrapping_sub(U32(p.canvas.height), U32(p.key_length)),
                 U32(p.surfboard_height))

\* one of the two subtractions of roll_width goes below zero: a build with
\* overflow checks panics there
roll_width_overflows(p) ==
    \/ p.canvas.height < p.key_length
    \/ p.canvas.height - p.key_length < p.surfboard_height

\* the for loop of update: speed_multiplier slices of the channels as they
\* are at this tick go to the front
Pushed(p, tick) == [i \in 1 .. p.speed_multiplier |-> tick] \o p.time_slices

\* the while loop of update: slices are popped from the back while there
\* are more than width of them
Trimmed(slices, width) ==
    IF Below(width, U32(Len(slices)))
    THEN SubSeq(slices, 1, width.hi * Half + width.lo)
    ELSE slices

\* update, where roll_width does not panic
update(p, tick) ==
    [p EXCEPT !.time_slices = Trimmed(Pushed(p, tick), roll_width(p))]

\* the tick event a polling type samples on
TickOf(polling_type) ==
    CASE polling_type = "PpuFrame" -> "NesNewFrame"
      [] polling_type = "PpuScanline" -> "NesNewScanline"
      [] polling_type = "ApuQuarterFrame" -> "NesNewApuQuarterFrame"
      [] polling_type = "ApuHalfFrame" -> "NesNewApuHalfFrame"

\* variant: the right edge of a strip belongs to it
mouse_mutes_channel_horiz_closed(chs, sx, sy, width, height, mouse_x, mouse_y) ==
    IF mouse_x < 0 \/ mouse_y < 0 THEN << >>
    ELSE LET channel_width == width \div Len(chs)
             hit(i) == /\ mouse_x >= sx + i * channel_width
                       /\ mouse_x <= sx + i * channel_width + channel_width
                       /\ mouse_y >= sy
                       /\ mouse_y < sy + height
             event(i) == IF chs[i + 1] THEN [kind |-> "UnmuteChannel", index |-> i]
                         ELSE [kind |-> "MuteChannel", index |-> i]
             scan[n \in 0 .. Len(chs)] ==
                 IF n = 0 THEN << >>
                 ELSE IF hit(n - 1) THEN Append(scan[n - 1], event(n - 1))
                      ELSE scan[n - 1]
         IN  scan[Len(chs)]

\* mouse_mutes_channel_horiz over the collected channels: the strips are
\* scanned from channel 0 up and every strip holding the point adds its
\* event
mouse_mutes_channel_horiz(chs, sx, sy, width, height, mouse_x, mouse_y) ==
    IF mouse_x < 0 \/ mouse_y < 0 THEN << >>
    ELSE LET channel_width == width \div Len(chs)
             hit(i) == /\ mouse_x >= sx + i * channel_width
                       /\ mouse_x < sx + i * channel_width + channel_width
                       /\ mouse_y >= sy
                       /\ mouse_y < sy + height
             event(i) == IF chs[i + 1] THEN [kind |-> "UnmuteChannel", index |-> i]
                         ELSE [kind |-> "MuteChannel", index |-> i]
             scan[n \in 0 .. Len(chs)] ==
                 IF n = 0 THEN << >>
                 ELSE IF hit(n - 1) THEN Append(scan[n - 1], event(n - 1))
                      ELSE scan[n - 1]
         IN  scan[Len(chs)]

mouse_click(p, chs, mx, my) ==
    IF p.scroll_direction = "TopToBottom"
    THEN mouse_mutes_channel_horiz(chs, 0, 0, p.canvas.width,
                                   p.surfboard_height, mx, my)
    ELSE << >>

\* the ApplyIntegerSetting arm of handle_event
ApplyIntegerSetting(p, path, value) ==
    CASE path = "piano_roll.canvas_width" ->
            [p EXCEPT !.canvas = [width |-> value, height |-> p.canvas.height]]
      [] path = "piano_roll.canvas_height" ->
            [p EXCEPT !.canvas = [width |-> p.canvas.width, height |-> value]]
      [] path = "piano_roll.key_thickness" -> [p EXCEPT !.key_thickness = value]
      [] path = "piano_roll.key_length" -> [p EXCEPT !.key_length = value]
      [] path = "piano_roll.octave_count" ->
            [p EXCEPT !.keys = value * 12 + 1,
                      !.highest_index = p.lowest_index + value * 12 + 1]
      [] path = "piano_roll.scale_factor" -> [p EXCEPT !.scale = value]
      [] path = "piano_roll.speed_multiplier" ->
            [p EXCEPT !.speed_multiplier = value]
      [] path = "piano_roll.starting_octave" ->
            [p EXCEPT !.lowest_index = midi_index_C(value),
                      !.highest_index = midi_index_C(value) + p.keys]
      [] path = "piano_roll.waveform_height" ->
            [p EXCEPT !.surfboard_height = value]
      [] OTHER -> p

(***************************************************************************)
(* State.  Each specification drives one part of the program; the other    *)
(* parts stay as constructed.                                              *)
(***************************************************************************)
VARIABLES
    ines,       \* the cartridge handed to from_ines
    status,     \* "unloaded", then the Result of from_ines: "Ok" or "Err"
    nrom,       \* the Nrom device (NoDevice unless status = "Ok")
    last,       \* the last call that changed state: [op, address, data]
    nops,       \* number of writes performed
    panicked    \* an access indexed outside a store

nromVars == << ines, status, nrom, last, nops, panicked >>

VARIABLES
    noise,      \* the NoiseChannelState
    nclocks,    \* number of clock() calls made
    nop,        \* the last call made on the channel
    started     \* the period counter when the clocking began

noiseVars == << noise, nclocks, nop, started >>

VARIABLES
    wpc,                    \* the statement of worker_main the worker runs next,
                            \* once the running dispatch_event call has returned
    stack,                  \* the running dispatch_event calls, outermost first
    log,                    \* begin and end of every dispatch_event call of the
                            \* latest top-level dispatch, with the responses
                            \* each call collected and the handlers they came from
    runtime_rx,             \* the commands sent to the worker and not yet received
    nsent,                  \* number of commands sent
    worker,                 \* the Worker's own fields and its stdout
    runtime_state,          \* the RuntimeState
    audio_output_buffer,    \* AUDIO_OUTPUT_BUFFER: the number of samples queued
    mutex,                  \* who holds the lock of AUDIO_OUTPUT_BUFFER
    output_buffer_len,      \* step_emulator's local: the length it last observed
    repaint_needed,         \* step_emulator's local
    samples,                \* step_emulator's local: the samples just consumed
    scanline_steps,         \* scanline steps of this step_emulator call, counted
                            \* up to StepsCounted
    data,                   \* the output block of the latest audio callback: how
                            \* many slots hold drained samples and how many
                            \* EQUILIBRIUM
    fifo,                   \* which samples AUDIO_OUTPUT_BUFFER holds and which
                            \* have been written to the sink
    senders                 \* "held" while a Sender of the command channel
                            \* exists, "dropped" once every one is dropped

VARIABLES
    piano,                  \* the PianoRollWindow
    channels,               \* the mute flags of the channels of runtime.nes
    pevents,                \* the events the latest handle_event returned
    pcount,                 \* how many events the window has handled
    ppanic,                 \* the thread running the window has panicked
    overflow_checks,        \* the build panics on integer overflow (a debug
                            \* build) or wraps (a release build)
    pop                     \* the event handled last, with its arguments

pianoVars ==
    << piano, channels, pevents, pcount, ppanic, overflow_checks, pop >>

workerVars ==
    << wpc, stack, log, runtime_rx, nsent, worker, runtime_state,
       audio_output_buffer, mutex, output_buffer_len, repaint_needed, samples,
       scanline_steps, data, fifo, senders >>

vars == << nromVars, noiseVars, workerVars, pianoVars >>

\* what a step of one part leaves alone
besideNrom == << noiseVars, workerVars, pianoVars >>
besideNoise == << nromVars, workerVars, pianoVars >>
besideWorker == << nromVars, noiseVars, pianoVars >>
besidePiano == << nromVars, noiseVars, workerVars >>

PianoParked ==
    /\ piano = PianoRollWindow_new
    /\ channels = Channels_new(0)
    /\ pevents = << >>
    /\ pcount = 0
    /\ ppanic = FALSE
    /\ overflow_checks = FALSE
    /\ pop = [event |-> "new", args |-> << >>]

WorkerParked ==
    /\ wpc = "events"
    /\ stack = << >>
    /\ log = << >>
    /\ runtime_rx = << >>
    /\ nsent = 0
    /\ worker = Worker_new
    /\ runtime_state = RuntimeState_new
    /\ audio_output_buffer = 0
    /\ mutex = "free"
    /\ output_buffer_len = 0
    /\ repaint_needed = FALSE
    /\ samples = 0
    /\ scanline_steps = 0
    /\ data = [samples |-> 0, equilibrium |-> 0]
    /\ fifo = Fifo_new
    /\ senders = "held"

NoiseParked ==
    /\ noise = NoiseChannelState_new("Noise", "2A03")
    /\ nclocks = 0
    /\ nop = "new"
    /\ started = 0

(***************************************************************************)
(* Part 1: driving the NROM device.                                        *)
(***************************************************************************)
\* addresses the bus is driven with: every region boundary of both address
\* spaces, the four nametables and their mirrors, with neighbouring offsets
CpuAddrs ==
    {0, 1, 16383, 16384, 24575, 65534, 65535}
       \cup {24576 + k * 8192 + o : k \in 0 .. 4, o \in {0, 1, 2, 3, 4095, 8190, 8191}}

PpuAddrs ==
    {0, 1, 2, 3, 4096, 8190, 8191, 16384, 16385, 24576, 32768, 65535}
       \cup {8192 + k * 1024 + o : k \in 0 .. 7, o \in {0, 1, 341, 1022, 1023}}

\* 0x5FFF, 0x6000, 0x6001, 0x8000
WriteCpuAddrs == {24575, 24576, 24577, 32768}
\* 0x0000, 0x1FFF, 0x2000, 0x2400, 0x2800, 0x2FFF, 0x3FFF, 0x4000
WritePpuAddrs == {0, 8191, 8192, 9216, 10240, 12287, 16383, 16384}
WriteData == {1, 255}

NoCall == [op |-> "none", address |-> 0, data |-> 0]

NromInit ==
    /\ ines \in Cartridges
    /\ status = "unloaded"
    /\ nrom = NoDevice
    /\ last = NoCall
    /\ nops = 0
    /\ panicked = FALSE
    /\ NoiseParked
    /\ WorkerParked
    /\ PianoParked

LoadCartridge ==
    /\ status = "unloaded"
    /\ status' = IF from_ines(ines).ok THEN "Ok" ELSE "Err"
    /\ nrom' = IF from_ines(ines).ok THEN from_ines(ines).val ELSE NoDevice
    /\ last' = [NoCall EXCEPT !.op = "from_ines"]
    /\ UNCHANGED << ines, nops, panicked >>
    /\ UNCHANGED besideNrom

\* debug_read_cpu takes &self: it returns a value and changes nothing
ReadCpu ==
    /\ status = "Ok" /\ ~panicked
    /\ \E a \in CpuAddrs : IsOptionU8(debug_read_cpu(nrom, a))
    /\ UNCHANGED nromVars
    /\ UNCHANGED besideNrom

WriteCpu ==
    /\ status = "Ok" /\ ~panicked
    /\ nops < MaxOps
    /\ \E a \in WriteCpuAddrs, v \in WriteData :
          /\ nrom' = write_cpu(nrom, a, v)
          /\ last' = [op |-> "write_cpu", address |-> a, data |-> v]
    /\ nops' = nops + 1
    /\ UNCHANGED << ines, status, panicked >>
    /\ UNCHANGED besideNrom

\* debug_read_ppu takes &self: it changes nothing, unless the index panics
ReadPpu ==
    /\ status = "Ok" /\ ~panicked
    /\ \E a \in PpuAddrs : panicked' = ReadPpuPanics(nrom, a)
    /\ UNCHANGED << ines, status, nrom, last, nops >>
    /\ UNCHANGED besideNrom

WritePpu ==
    /\ status = "Ok" /\ ~panicked
    /\ nops < MaxOps
    /\ \E a \in WritePpuAddrs, v \in WriteData :
          /\ nrom' = write_ppu(nrom, a, v)
          /\ last' = [op |-> "write_ppu", address |-> a, data |-> v]
          /\ panicked' = WritePpuPanics(nrom, a)
    /\ nops' = nops + 1
    /\ UNCHANGED << ines, status >>
    /\ UNCHANGED besideNrom

NromNext ==
    \/ LoadCartridge
    \/ ReadCpu
    \/ WriteCpu
    \/ ReadPpu
    \/ WritePpu

(***************************************************************************)
(* Properties of the NROM device.                                          *)
(***************************************************************************)
Loaded == status = "Ok"

InPrgRamWindow(a) == a >= 24576 /\ a <= 32767      \* 0x6000 .. 0x7FFF
InPrgRomWindow(a) == a >= 32768 /\ a <= 65535      \* 0x8000 .. 0xFFFF
InPatternTables(a) == a >= 0 /\ a <= 8191          \* 0x0000 .. 0x1FFF
InNametables(a) == a >= 8192 /\ a <= 16383         \* 0x2000 .. 0x3FFF

\* the step is a call of write_cpu / write_ppu
WriteCpuStep == nops' = nops + 1 /\ last'.op = "write_cpu"
WritePpuStep == nops' = nops + 1 /\ last'.op = "write_ppu"

\* C1: a CPU read in 0x6000..0x7FFF returns the PRG-RAM byte at offset
\* (A - 0x6000) modulo the PRG-RAM capacity, a read in 0x8000..0xFFFF returns
\* the cartridge's PRG-ROM byte at offset (A - 0x8000) modulo the PRG-ROM
\* capacity (read_cpu(0x8000) is the first PRG-ROM byte), a read below 0x6000
\* returns absent; a block of capacity 0 reads as absent.
C1_ReadCpuRouting ==
    Loaded =>
        /\ \A a \in CpuAddrs :
              debug_read_cpu(nrom, a) =
                 IF InPrgRamWindow(a)
                 THEN IF ines.prg_ram_size = 0 THEN None
                      ELSE Some(nrom.prg_ram[((a - 24576) % ines.prg_ram_size) + 1])
                 ELSE IF InPrgRomWindow(a)
                 THEN IF ines.prg_rom_size = 0 THEN None
                      ELSE Some(PrgRomImage(ines.prg_rom_size)
                                   [((a - 32768) % ines.prg_rom_size) + 1])
                 ELSE None
        /\ ines.prg_rom_size > 0 =>
              debug_read_cpu(nrom, 32768) = Some(PrgRomImage(ines.prg_rom_size)[1])

\* a device whose PRG-RAM holds a written byte that is read back through the
\* wrapped window end 0x7FFF, with PRG-ROM read at 0x8000
C1_Witness ==
    /\ Loaded
    /\ ines.prg_ram_size = 2 /\ ines.prg_rom_size = 2
    /\ last.op = "write_cpu" /\ last.address = 24577 /\ last.data = 255
    /\ debug_read_cpu(nrom, 32767) = Some(255)
    /\ debug_read_cpu(nrom, 32768) = Some(65)
    /\ debug_read_cpu(nrom, 24575) = None

\* C2: a write_cpu outside 0x6000..0x7FFF changes nothing: read_cpu and
\* read_ppu return the same at every address as before it, and PRG-ROM, CHR,
\* VRAM and the mirroring mode are unchanged.
C2_WriteCpuOutsideDiscarded ==
    [][(WriteCpuStep /\ ~InPrgRamWindow(last'.address)) =>
          /\ \A a \in CpuAddrs : debug_read_cpu(nrom', a) = debug_read_cpu(nrom, a)
          /\ \A a \in PpuAddrs : debug_read_ppu(nrom', a) = debug_read_ppu(nrom, a)
          /\ nrom'.prg_rom = nrom.prg_rom
          /\ nrom'.prg_ram = nrom.prg_ram
          /\ nrom'.chr = nrom.chr
          /\ nrom'.vram = nrom.vram
          /\ mirroring(nrom') = mirroring(nrom)
      ]_nromVars

\* write_cpu(0x8000, v) arrived at a device whose PRG-RAM was written before,
\* and read_cpu(0x8000) is still the first PRG-ROM byte
C2_Witness ==
    /\ Loaded
    /\ nops = 2
    /\ last.op = "write_cpu" /\ last.address = 32768 /\ last.data = 255
    /\ ines.prg_rom_size = 2
    /\ debug_read_cpu(nrom, 32768) = Some(65)
    /\ debug_read_cpu(nrom, 24576) = Some(1)

\* C3: with PRG-RAM capacity > 0, write_cpu(A, v) at A in 0x6000..0x7FFF
\* immediately followed by read_cpu(A) returns v; with capacity 0, read_cpu
\* is absent at every A in 0x6000..0x7FFF whatever has been written.
C3_PrgRamWriteThenRead ==
    Loaded =>
        /\ (last.op = "write_cpu" /\ InPrgRamWindow(last.address)
                /\ ines.prg_ram_size > 0)
              => debug_read_cpu(nrom, last.address) = Some(last.data)
        /\ ines.prg_ram_size = 0 =>
              \A a \in CpuAddrs : InPrgRamWindow(a) => debug_read_cpu(nrom, a) = None

\* the second write to 0x6000 replaced the first and is read back
C3_Witness ==
    /\ Loaded
    /\ nops = 2
    /\ ines.prg_ram_size > 0
    /\ last.op = "write_cpu" /\ last.address = 24576 /\ last.data = 1
    /\ debug_read_cpu(nrom, 24576) = Some(1)

\* a device without PRG-RAM that has been written to in the PRG-RAM window
C3_WitnessNoRam ==
    /\ Loaded
    /\ ines.prg_ram_size = 0
    /\ last.op = "write_cpu" /\ InPrgRamWindow(last.address)
    /\ debug_read_cpu(nrom, last.address) = None

\* the resolver the spec assigns to the three modes that have VRAM routing
Resolve(mode, a) ==
    CASE mode = "Horizontal" -> horizontal_mirroring(a)
      [] mode = "Vertical" -> vertical_mirroring(a)
      [] mode = "FourScreen" -> four_banks(a)

Routed(mode) == mode \in {"Horizontal", "Vertical", "FourScreen"}

ChrRead(a) ==
    IF ines.chr_size = 0 THEN None
    ELSE Some(nrom.chr[(a % ines.chr_size) + 1])

\* C4 as claimed: a PPU read in 0x0000..0x1FFF returns CHR at offset A modulo
\* the CHR capacity, a read in 0x2000..0x3FFF returns a VRAM byte (the one the
\* resolver of the device's mode selects), a read above 0x3FFF returns absent.
C4_Original ==
    Loaded =>
        \A a \in PpuAddrs :
           /\ InPatternTables(a) => debug_read_ppu(nrom, a) = ChrRead(a)
           /\ InNametables(a) =>
                 \E b \in Byte : debug_read_ppu(nrom, a) = Some(b)
           /\ a > 16383 => debug_read_ppu(nrom, a) = None

\* C4 as amended: as claimed for Horizontal, Vertical and FourScreen; under
\* SingleScreenA and SingleScreenB a read in 0x2000..0x3FFF returns absent.
C4_ReadPpuRouting ==
    Loaded =>
        \A a \in PpuAddrs :
           /\ InPatternTables(a) => debug_read_ppu(nrom, a) = ChrRead(a)
           /\ (InNametables(a) /\ Routed(mirroring(nrom))) =>
                 debug_read_ppu(nrom, a) =
                    Some(VecGet(nrom.vram, Resolve(mirroring(nrom), a)))
           /\ (InNametables(a) /\ ~Routed(mirroring(nrom))) =>
                 debug_read_ppu(nrom, a) = None
           /\ a > 16383 => debug_read_ppu(nrom, a) = None

\* a Vertical device after writes to 0x2000 and 0x2400: the two nametables
\* are read back separately, each also through its mirror
C4_Witness ==
    /\ Loaded
    /\ mirroring(nrom) = "Vertical"
    /\ debug_read_ppu(nrom, 8192) = Some(1)
    /\ debug_read_ppu(nrom, 10240) = Some(1)
    /\ debug_read_ppu(nrom, 9216) = Some(255)
    /\ debug_read_ppu(nrom, 11264) = Some(255)
    /\ debug_read_ppu(nrom, 16384) = None

\* C5: write_ppu changes a store only where it is writable: with CHR-ROM a
\* write_ppu in 0x0000..0x1FFF is discarded and read_ppu returns the same at
\* every address as before; with CHR-RAM (of capacity > 0), or at a nametable
\* address under Horizontal, Vertical or FourScreen mirroring, write_ppu(A, v)
\* followed by read_ppu(A) returns v.
C5_WritePpuWritableOnly ==
    [][WritePpuStep =>
          /\ (ines.chr_kind = "rom" /\ InPatternTables(last'.address)) =>
                \A a \in PpuAddrs : debug_read_ppu(nrom', a) = debug_read_ppu(nrom, a)
          /\ (ines.chr_kind = "ram" /\ ines.chr_size > 0
                 /\ InPatternTables(last'.address)) =>
                debug_read_ppu(nrom', last'.address) = Some(last'.data)
          /\ (InNametables(last'.address) /\ Routed(mirroring(nrom))) =>
                debug_read_ppu(nrom', last'.address) = Some(last'.data)
      ]_nromVars

\* C6: address decoding is total: in every mirroring mode and with every
\* block capacity, 0 included, no access has panicked, every read at every
\* address yields a byte or absent, and no nametable access, read or write,
\* indexes outside the VRAM store.
C6_DecodingTotal ==
    /\ ~panicked
    /\ Loaded =>
          /\ \A a \in CpuAddrs :
                IsOptionU8(debug_read_cpu(nrom, a))
          /\ \A a \in PpuAddrs :
                /\ IsOptionU8(debug_read_ppu(nrom, a))
                /\ ~ReadPpuPanics(nrom, a)
                /\ ~WritePpuPanics(nrom, a)
                /\ (InNametables(a) /\ Routed(mirroring(nrom))) =>
                      /\ ReadNametableIndex(nrom, a) \in 0 .. VramSize - 1
                      /\ WriteNametableIndex(nrom, a) \in 0 .. VramSize - 1
          /\ DOMAIN nrom.vram.cells \subseteq 0 .. nrom.vram.len - 1

\* a FourScreen device whose last VRAM byte (0x2FFF -> index 0xFFF) has been
\* written and is read back through the mirror 0x3FFF
C6_Witness ==
    /\ Loaded /\ ~panicked
    /\ mirroring(nrom) = "FourScreen"
    /\ last.op = "write_ppu" /\ last.address = 12287 /\ last.data = 255
    /\ VecGet(nrom.vram, 4095) = 255
    /\ debug_read_ppu(nrom, 16383) = Some(255)

\* a and b differ at most in address bit n
SameButBit(a, b, n) == a - Bit(a, n) * (2 ^ n) = b - Bit(b, n) * (2 ^ n)

\* the address bit the mode ignores: bit 10 (0x400) under Horizontal, bit 11
\* (0x800) under Vertical
IgnoredBit(mode) == IF mode = "Horizontal" THEN 10 ELSE 11

\* C7: under Horizontal and under Vertical mirroring, a write_ppu to a
\* nametable address is returned by read_ppu of every nametable address that
\* differs from it only in the bit the mode ignores (Horizontal: 0x2400 and
\* 0x2000 alias).
C7_MirrorAliasing ==
    (/\ Loaded
     /\ mirroring(nrom) \in {"Horizontal", "Vertical"}
     /\ last.op = "write_ppu" /\ InNametables(last.address)) =>
        \A b \in PpuAddrs :
           (InNametables(b) /\ SameButBit(last.address, b, IgnoredBit(mirroring(nrom))))
              => debug_read_ppu(nrom, b) = Some(last.data)

\* Horizontal: the write to 0x2400 is read back at 0x2000, and 0x2800 still
\* holds what was written to it before
C7_Witness ==
    /\ Loaded
    /\ mirroring(nrom) = "Horizontal"
    /\ last.op = "write_ppu" /\ last.address = 9216 /\ last.data = 255
    /\ debug_read_ppu(nrom, 8192) = Some(255)
    /\ debug_read_ppu(nrom, 10240) = Some(1)

\* Vertical: the write to 0x2800 is read back at 0x2000
C7_WitnessVertical ==
    /\ Loaded
    /\ mirroring(nrom) = "Vertical"
    /\ last.op = "write_ppu" /\ last.address = 10240 /\ last.data = 255
    /\ debug_read_ppu(nrom, 8192) = Some(255)
    /\ debug_read_ppu(nrom, 9216) = Some(0)

InFourScreenRange(a) == a >= 8192 /\ a <= 12287       \* 0x2000 .. 0x2FFF

\* C8: under FourScreen mirroring a write_ppu to an address in 0x2000..0x2FFF
\* leaves the value read_ppu returns at every other address of that range
\* unchanged.
C8_FourScreenNoAlias ==
    [][(/\ WritePpuStep
        /\ mirroring(nrom) = "FourScreen"
        /\ InFourScreenRange(last'.address)) =>
          \A b \in PpuAddrs :
             (InFourScreenRange(b) /\ b # last'.address) =>
                debug_read_ppu(nrom', b) = debug_read_ppu(nrom, b)
      ]_nromVars

\* FourScreen: 0x2000 and 0x2400 hold different bytes, 0x2800 is untouched
C8_Witness ==
    /\ Loaded
    /\ mirroring(nrom) = "FourScreen"
    /\ nops = 2
    /\ last.op = "write_ppu" /\ last.address = 9216 /\ last.data = 255
    /\ debug_read_ppu(nrom, 8192) = Some(1)
    /\ debug_read_ppu(nrom, 9216) = Some(255)
    /\ debug_read_ppu(nrom, 10240) = Some(0)

\* C9 as claimed: loading a cartridge that declares FourScreen and supplies no
\* extra 2 KiB of nametable RAM fails.  (from_ines takes no nametable RAM from
\* the cartridge, and no cartridge of the model holds 2 KiB of RAM.)
C9_Original ==
    (status # "unloaded" /\ ines.mirroring = "FourScreen") => status = "Err"

\* C9 as amended: loading a FourScreen cartridge fails exactly when its
\* PRG-RAM or CHR block cannot be built; otherwise the device holds its own
\* 0x1000-byte VRAM store, and no FourScreen nametable access falls outside it.
C9_FourScreenSelfSupplied ==
    (status # "unloaded" /\ ines.mirroring = "FourScreen") =>
        /\ (status = "Err") <=> (~prg_ram_block(ines).ok \/ ~chr_block(ines).ok)
        /\ status = "Ok" =>
              /\ ~panicked
              /\ mirroring(nrom) = "FourScreen"
              /\ nrom.vram.len = 4096
              /\ \A a \in PpuAddrs :
                    InNametables(a) =>
                       /\ four_banks(a) < nrom.vram.len
                       /\ ~ReadPpuPanics(nrom, a)
                       /\ ~WritePpuPanics(nrom, a)

\* a FourScreen cartridge with CHR-ROM and no PRG-RAM was loaded, and its
\* third and fourth nametables have been written
C9_Witness ==
    /\ status = "Ok"
    /\ ines.mirroring = "FourScreen"
    /\ ines.chr_kind = "rom"
    /\ nops = 2
    /\ debug_read_ppu(nrom, 10240) = Some(1)
    /\ debug_read_ppu(nrom, 12287) = Some(255)

\* C10: from_ines returns an error and no device whenever the cartridge's
\* PRG-RAM block or CHR block cannot be built; it returns a device only when
\* both are built, and that device's mirroring() is the header's mode.
C10_LoadResult ==
    status # "unloaded" =>
        /\ (~prg_ram_block(ines).ok \/ ~chr_block(ines).ok) =>
              status = "Err" /\ nrom = NoDevice
        /\ (prg_ram_block(ines).ok /\ chr_block(ines).ok) =>
              /\ status = "Ok"
              /\ mirroring(nrom) = ines.mirroring
              /\ (nrom.chr # << >> \/ ines.chr_size = 0)

\* the load failed on the CHR block alone
C10_Witness ==
    /\ status = "Err"
    /\ prg_ram_block(ines).ok
    /\ ~chr_block(ines).ok
    /\ nrom = NoDevice

\* the load succeeded, and the mode is still the header's after two writes
C10_WitnessOk ==
    /\ status = "Ok"
    /\ nops = 2
    /\ ines.mirroring = "SingleScreenB"
    /\ mirroring(nrom) = "SingleScreenB"

\* the device was built for one of the single-screen modes
SingleScreen == mirroring(nrom) \in {"SingleScreenA", "SingleScreenB"}

\* C32: under SingleScreenA and SingleScreenB the device routes no
\* nametable access: a read at any address in 0x2000..0x3FFF returns
\* absent, and a write there leaves the device as it was.
C32_SingleScreenUnrouted ==
    /\ [](Loaded /\ SingleScreen =>
            /\ \A a \in PpuAddrs :
                  InNametables(a) =>
                     (debug_read_ppu(nrom, a) = None /\ ~ReadPpuPanics(nrom, a))
            /\ \A a \in WritePpuAddrs, v \in WriteData :
                  InNametables(a) =>
                     (write_ppu(nrom, a, v) = nrom /\ ~WritePpuPanics(nrom, a))
            /\ nrom.vram = from_ines(ines).val.vram)
    /\ [][(Loaded /\ SingleScreen /\ last'.op = "write_ppu" /\ nops' = nops + 1
             /\ InNametables(last'.address)) =>
            (nrom' = nrom /\ panicked' = panicked)]_vars

\* a SingleScreenA device after a write to 0x2000: the read there is absent
C32_Witness ==
    /\ Loaded
    /\ mirroring(nrom) = "SingleScreenA"
    /\ last = [op |-> "write_ppu", address |-> 8192, data |-> 255]
    /\ debug_read_ppu(nrom, 8192) = None
    /\ ~panicked

(***************************************************************************)
(* Part 2: driving the noise channel.                                      *)
(***************************************************************************)
NromParked ==
    /\ ines = CHOOSE c \in Cartridges : from_ines(c).ok
    /\ status = "unloaded"
    /\ nrom = NoDevice
    /\ last = NoCall
    /\ nops = 0
    /\ panicked = FALSE

\* values the APU writes into the channel's registers
Modes == {0, 1}
Periods == {0, 2}
Volumes == {0, 15}
Lengths == {0, 3}

NoiseInit ==
    /\ NoiseParked
    /\ NromParked
    /\ WorkerParked
    /\ PianoParked

NoiseClock ==
    /\ nclocks < MaxNoiseClocks
    /\ noise' = clock(noise)
    /\ nclocks' = nclocks + 1
    /\ nop' = "clock"
    /\ UNCHANGED started
    /\ UNCHANGED besideNoise

\* output() takes &self: it returns a sample and changes nothing
NoiseOutput ==
    /\ output(noise) \in min_sample(noise) .. max_sample(noise)
    /\ nop' = "output"
    /\ UNCHANGED << noise, nclocks >>
    /\ UNCHANGED started
    /\ UNCHANGED besideNoise

NoiseRecord ==
    /\ Len(noise.output_buffer.samples) < MaxRecords
    /\ noise' = record_current_output(noise)
    /\ nop' = "record_current_output"
    /\ UNCHANGED nclocks
    /\ UNCHANGED started
    /\ UNCHANGED besideNoise

NoiseMute ==
    /\ noise' = mute(noise)
    /\ nop' = "mute"
    /\ UNCHANGED nclocks
    /\ UNCHANGED started
    /\ UNCHANGED besideNoise

NoiseUnmute ==
    /\ noise' = unmute(noise)
    /\ nop' = "unmute"
    /\ UNCHANGED nclocks
    /\ UNCHANGED started
    /\ UNCHANGED besideNoise

\* the APU's register writes and frame-sequencer ticks, which assign the
\* channel's public fields
ApuWriteMode ==
    /\ \E m \in Modes : noise' = [noise EXCEPT !.mode = m]
    /\ nop' = "apu"
    /\ UNCHANGED nclocks
    /\ UNCHANGED started
    /\ UNCHANGED besideNoise

ApuWritePeriod ==
    /\ \E p \in Periods : noise' = [noise EXCEPT !.period_initial = p]
    /\ nop' = "apu"
    /\ UNCHANGED nclocks
    /\ UNCHANGED started
    /\ UNCHANGED besideNoise

ApuSetEnvelope ==
    /\ \E v \in Volumes : noise' = [noise EXCEPT !.envelope.volume = v]
    /\ nop' = "apu"
    /\ UNCHANGED nclocks
    /\ UNCHANGED started
    /\ UNCHANGED besideNoise

ApuSetLength ==
    /\ \E l \in Lengths : noise' = [noise EXCEPT !.length_counter.length = l]
    /\ nop' = "apu"
    /\ UNCHANGED nclocks
    /\ UNCHANGED started
    /\ UNCHANGED besideNoise

NoiseNext ==
    \/ NoiseClock
    \/ NoiseOutput
    \/ NoiseRecord
    \/ NoiseMute
    \/ NoiseUnmute
    \/ ApuWriteMode
    \/ ApuWritePeriod
    \/ ApuSetEnvelope
    \/ ApuSetLength

\* the shift-register sequence alone: the channel as constructed (mode 0,
\* period 0), clocked and nothing else
LfsrClock ==
    /\ nclocks < MaxLfsrClocks
    /\ noise' = clock(noise)
    /\ nclocks' = nclocks + 1
    /\ nop' = "clock"
    /\ UNCHANGED started
    /\ UNCHANGED besideNoise

LfsrNext == LfsrClock

\* the register under every sequence of clocks and writes of the mode and
\* the period: clock() calls without limit, counted up to ClocksCounted
RegisterClock ==
    /\ noise' = clock(noise)
    /\ nclocks' = IF nclocks < ClocksCounted THEN nclocks + 1 ELSE nclocks
    /\ nop' = "clock"
    /\ UNCHANGED started
    /\ UNCHANGED besideNoise

RegisterNext ==
    \/ RegisterClock
    \/ ApuWriteMode
    \/ ApuWritePeriod

\* the timer alone: a channel whose period register holds one value for the
\* whole run, clocked and nothing else; the period counter starts at 0, as
\* constructed, or at a value left by an earlier period
HeldPeriods == 0 .. MaxPeriod

NoisePeriodInit ==
    /\ \E p \in HeldPeriods, c \in 0 .. MaxPeriod + 1, m \in Modes :
          /\ noise = [NoiseChannelState_new("Noise", "2A03") EXCEPT
                         !.period_initial = p, !.period_current = c, !.mode = m]
          /\ started = c
    /\ nclocks = 0
    /\ nop = "new"
    /\ NromParked
    /\ WorkerParked
    /\ PianoParked

PeriodClock ==
    /\ nclocks < MaxPeriodClocks
    /\ noise' = clock(noise)
    /\ nclocks' = nclocks + 1
    /\ nop' = "clock"
    /\ UNCHANGED started
    /\ UNCHANGED besideNoise

PeriodNext == PeriodClock

(***************************************************************************)
(* Properties of the noise channel.                                        *)
(***************************************************************************)
\* the step is a call of clock()
ClockStep == nclocks' = nclocks + 1

\* the shift register advances in this step
AdvanceStep == ClockStep /\ noise.period_current = 0

\* C11: whenever clock() advances the shift register, the new register is
\* the old one shifted right by one with bit 14 set to the feedback bit,
\* where the feedback bit is bit 0 XOR bit 1 of the old register in mode 0
\* and bit 0 XOR bit 6 in mode 1; the period counter is reloaded from the
\* programmed period in the same step.
C11_ShiftRegisterAdvance ==
    [][AdvanceStep =>
         LET old == noise.shift_register
             tap == IF noise.mode = 1 THEN Bit(old, 6) ELSE Bit(old, 1)
             fb == IF Bit(old, 0) = tap THEN 0 ELSE 1
         IN  /\ noise.mode \in {0, 1}
             /\ noise'.shift_register = (old \div 2) + fb * 16384
             /\ Bit(noise'.shift_register, 14) = fb
             /\ noise'.shift_register < 32768
             /\ noise'.period_current = noise.period_initial]_vars

\* the register has just advanced in mode 1 with old bit 6 set, old bit 1
\* and old bit 0 clear (feedback 1 comes from bit 6 alone), and the period
\* counter was reloaded with a non-zero period
C11_Witness ==
    /\ nop = "clock"
    /\ noise.mode = 1
    /\ noise.period_initial = 2 /\ noise.period_current = 2
    /\ Bit(noise.shift_register, 14) = 1
    /\ Bit(noise.shift_register, 5) = 1
    /\ Bit(noise.shift_register, 0) = 0

\* C12: from shift register 1 in mode 0 with period 0, the register is back
\* at 1 after exactly 32767 calls of clock(), and after no smaller positive
\* number of calls.
C12_MaximalLength ==
    /\ (nclocks \in 1 .. 32766 => noise.shift_register # 1)
    /\ (nclocks = 32767 => noise.shift_register = 1)
    /\ (noise.mode = 0 /\ noise.period_initial = 0)

C12_Witness == nclocks = 32767 /\ noise.shift_register = 1

\* C13: output() is 0 or the current envelope volume, an integer in
\* [0, 15], the range min_sample() .. max_sample() announces; so is every
\* sample record_current_output() has pushed.
C13_OutputRange ==
    /\ output(noise) \in {0, current_volume(noise.envelope)}
    /\ output(noise) \in 0 .. 15
    /\ min_sample(noise) = 0 /\ max_sample(noise) = 15
    /\ \A i \in 1 .. Len(noise.output_buffer.samples) :
          noise.output_buffer.samples[i] \in 0 .. 15

\* after clocking, with the length counter running, the register's bit 0
\* set and the envelope at full volume, output() is 15
C13_Witness ==
    /\ nclocks > 0
    /\ noise.length_counter.length > 0
    /\ Bit(noise.shift_register, 0) = 1
    /\ current_volume(noise.envelope) = 15
    /\ output(noise) = 15

\* shift-register values and envelope volumes output() is evaluated at
SampleRegisters == {0, 1, 2, 16384, 21845, 32767}
EnvelopeVolumes == 0 .. 15

\* C14: while the length counter is 0, output() is 0 for every
\* shift-register value, mode and envelope volume, and a step that leaves
\* the length counter at 0 (a clock(), an envelope or mode change) leaves
\* output() at 0.
C14_SilentAtZeroLength ==
    /\ [](noise.length_counter.length = 0 =>
            /\ output(noise) = 0
            /\ \A r \in SampleRegisters, v \in EnvelopeVolumes, m \in Modes :
                  output([noise EXCEPT !.shift_register = r,
                                       !.envelope.volume = v,
                                       !.mode = m]) = 0)
    /\ [][(noise.length_counter.length = 0 /\ noise'.length_counter.length = 0)
            => output(noise') = 0]_vars

\* the length counter is 0 after clocking, while the register's bit 0 is
\* set and the envelope is at full volume
C14_Witness ==
    /\ nop = "clock"
    /\ noise.length_counter.length = 0
    /\ Bit(noise.shift_register, 0) = 1
    /\ current_volume(noise.envelope) = 15

\* C15: a call of output() changes no state, and two calls with no step
\* between them return the same value; period_current and shift_register
\* change in a clock() step only, and a clock() step changes no other
\* field of the channel (length counter, envelope, mode, programmed period,
\* mute flag, sample history).
C15_ClockAndOutputEffects ==
    [][/\ (nop' = "output" => noise' = noise)
       /\ (nop' = "record_current_output" =>
             /\ noise' = [noise EXCEPT !.output_buffer = noise'.output_buffer]
             /\ noise'.output_buffer.samples
                  = Append(noise.output_buffer.samples, output(noise))
             /\ output(noise') = output(noise))
       /\ ((\/ noise'.period_current # noise.period_current
            \/ noise'.shift_register # noise.shift_register) => ClockStep)
       /\ (ClockStep =>
             noise' = [noise EXCEPT
                          !.period_current = noise'.period_current,
                          !.shift_register = noise'.shift_register])]_vars

\* clock() has just run on a channel whose other fields are all away from
\* their constructed values, after the same non-zero sample was recorded
\* twice
C15_Witness ==
    /\ nop = "clock"
    /\ noise.debug_disable
    /\ noise.length_counter.length = 3
    /\ current_volume(noise.envelope) = 15
    /\ noise.mode = 1
    /\ noise.period_initial = 2
    /\ noise.output_buffer.samples = << 15, 15 >>

\* the mixer's use of the mute flag (spec 4.4): a muted channel contributes
\* 0, any other channel its output()
AudioContribution(s) == IF muted(s) THEN 0 ELSE output(s)

\* the channel after n further calls of clock()
RECURSIVE ClockN(_, _)
ClockN(s, n) == IF n = 0 THEN s ELSE ClockN(clock(s), n - 1)

\* output() over the next calls of clock()
OutputLookahead == 3
OutputSequence(s) == [n \in 0 .. OutputLookahead |-> output(ClockN(s, n))]

\* muted() follows the mute flag: it changes in mute() and unmute() steps
\* only, is true after mute() and false after unmute(), and those steps
\* change no other field
MuteFlagOnly ==
    [][/\ (muted(noise') # muted(noise) => nop' \in {"mute", "unmute"})
       /\ (nop' = "mute" => muted(noise'))
       /\ (nop' = "unmute" => ~muted(noise'))
       /\ (nop' \in {"mute", "unmute"} =>
             noise' = [noise EXCEPT !.debug_disable = noise'.debug_disable])]_vars

\* C16 as stated: a muted channel contributes 0, mute() and unmute() change
\* the mute flag only, muted() is true exactly between a mute() and the next
\* unmute(), and in every state mute() followed by unmute() gives back the
\* exact state and the same subsequent outputs.
C16_Original ==
    /\ [](muted(noise) => AudioContribution(noise) = 0)
    /\ [](~muted(NoiseChannelState_new("Noise", "2A03")))
    /\ MuteFlagOnly
    /\ [](/\ unmute(mute(noise)) = noise
          /\ OutputSequence(unmute(mute(noise))) = OutputSequence(noise))

\* C16: a muted channel contributes 0, mute() and unmute() change the mute
\* flag only, muted() is true exactly between a mute() and the next
\* unmute(); mute() followed by unmute() gives back every field but the
\* mute flag and the same subsequent outputs, and gives back the exact state
\* when the channel was not muted before (on a muted channel the pair ends
\* unmuted).
C16_MuteReversible ==
    /\ [](muted(noise) => AudioContribution(noise) = 0)
    /\ [](~muted(NoiseChannelState_new("Noise", "2A03")))
    /\ MuteFlagOnly
    /\ [](/\ unmute(mute(noise)) = [noise EXCEPT !.debug_disable = FALSE]
          /\ OutputSequence(unmute(mute(noise))) = OutputSequence(noise)
          /\ (~muted(noise) => unmute(mute(noise)) = noise)
          /\ (muted(noise) => ~muted(unmute(mute(noise)))))

\* unmute() has just run on a clocked channel that sounds again
C16_Witness ==
    /\ nop = "unmute"
    /\ ~muted(noise)
    /\ nclocks > 0
    /\ AudioContribution(noise) > 0

\* C29: with the period register held at P, the shift register advances on
\* the clock() that finds the period counter at 0 (the first one when the
\* counter starts at 0) and then on every (P+1)-th clock(); every other
\* clock() takes exactly 1 off the counter and leaves the shift register
\* alone; the counter stays between 0 and the larger of its starting value
\* and P.
C29_PeriodicAdvance ==
    /\ [](/\ noise.period_current >= 0
          /\ noise.period_current <=
                (IF started > noise.period_initial THEN started
                 ELSE noise.period_initial))
    /\ [][ClockStep =>
            LET P == noise.period_initial
            IN  /\ noise'.period_initial = P
                /\ IF nclocks >= started /\ (nclocks - started) % (P + 1) = 0
                   THEN /\ noise'.shift_register # noise.shift_register
                        /\ noise'.shift_register =
                              OrBit14(noise.shift_register \div 2, Feedback(noise))
                        /\ noise'.period_current = P
                   ELSE /\ noise'.shift_register = noise.shift_register
                        /\ noise'.period_current = noise.period_current - 1]_vars

\* the counter started at 0 with period 3 and the ninth clock() has just
\* advanced the register for the third time
C29_Witness ==
    /\ started = 0
    /\ noise.period_initial = 3
    /\ nclocks = 9
    /\ noise.period_current = 3
    /\ noise.shift_register = 4096

\* C33: from the constructed channel, after any sequence of clock() calls
\* with the mode and the period written in between, the shift register is
\* not 0 and fits in 15 bits.
C33_RegisterNonZero ==
    noise.shift_register >= 1 /\ noise.shift_register <= 32767

\* the register holds fifteen ones after a clock() in mode 1 with a
\* non-zero period
C33_Witness ==
    /\ noise.shift_register = 32767
    /\ noise.mode = 1
    /\ noise.period_initial = 2
    /\ nop = "clock"

(***************************************************************************)
(* Part 3: driving the worker.                                             *)
(***************************************************************************)
\* commands the application sends to the worker
Commands == {"ApplyStringSetting", "SaveSram", "CloseApplication"}

WorkerInit ==
    /\ WorkerParked
    /\ NromParked
    /\ NoiseParked
    /\ PianoParked

\* the application thread sends a command
SendCommand ==
    /\ nsent < MaxCommands
    /\ senders = "held"
    /\ wpc # "finished"
    /\ \E c \in Commands : runtime_rx' = Append(runtime_rx, c)
    /\ nsent' = nsent + 1
    /\ UNCHANGED << wpc, stack, log, worker, runtime_state, audio_output_buffer,
                    mutex, output_buffer_len, repaint_needed, samples,
                    scanline_steps >>
    /\ UNCHANGED data
    /\ UNCHANGED fifo
    /\ UNCHANGED senders
    /\ UNCHANGED besideWorker

\* dispatch_event(event) is entered as the call at position path of the
\* cascade: the runtime state, the game window and the worker handle the
\* event in that order and their responses are collected
Enter(event, path, callers) ==
    \E rs \in RuntimeStateResponses(event, Len(path)),
       gs \in GameWindowResponses(event, Len(path)),
       produced \in (IF event = "NesRunScanline" THEN ScanlineSamples ELSE {0}),
       file \in (IF event = "SaveSram" THEN FileOutcomes ELSE {"written"}) :
       LET after == RuntimeState_handle_event(runtime_state, event, produced)
           handled == handle_event(worker, after, event, file)
           collected == Collected(Returned(rs, "runtime_state"),
                                  Returned(gs, "game_window"),
                                  Returned(handled.events, "worker"))
           responses == [i \in 1 .. Len(collected) |-> collected[i].event]
           origins == [i \in 1 .. Len(collected) |-> collected[i].handler]
       IN  /\ runtime_state' = after
           /\ worker' = handled.worker
           /\ stack' = Append(callers, [event |-> event, path |-> path,
                                        responses |-> responses,
                                        origins |-> origins, next |-> 1])
           /\ log' = Append(IF path = << >> THEN << >> ELSE log,
                            [op |-> "begin", event |-> event, path |-> path,
                             responses |-> responses, origins |-> origins])

\* process_incoming_events: try_recv returns a command, which is dispatched
RecvEvent ==
    /\ wpc \in {"events", "final_events"}
    /\ stack = << >>
    /\ try_recv(runtime_rx, senders) = "Ok"
    /\ Enter(Head(runtime_rx), << >>, << >>)
    /\ runtime_rx' = Tail(runtime_rx)
    /\ UNCHANGED << wpc, nsent, audio_output_buffer, mutex, output_buffer_len,
                    repaint_needed, samples, scanline_steps >>
    /\ UNCHANGED data
    /\ UNCHANGED fifo
    /\ UNCHANGED senders
    /\ UNCHANGED besideWorker

\* process_incoming_events: try_recv finds nothing (Empty, or Disconnected
\* once every sender is gone) and the function returns; after the final
\* drain worker_main is finished
RecvEmpty ==
    /\ wpc \in {"events", "final_events"}
    /\ stack = << >>
    /\ try_recv(runtime_rx, senders) \in {"Empty", "Disconnected"}
    /\ wpc' = AfterDrain(wpc, worker)
    /\ worker' = LET w == TryRecvError(try_recv(runtime_rx, senders), worker)
                 IN  IF wpc = "events" THEN w
                     ELSE [w EXCEPT !.stdout = Sent(@, "finished", MaxStdout)]
    /\ UNCHANGED << stack, log, runtime_rx, nsent, runtime_state,
                    audio_output_buffer, mutex, output_buffer_len,
                    repaint_needed, samples, scanline_steps >>
    /\ UNCHANGED data
    /\ UNCHANGED fifo
    /\ UNCHANGED senders
    /\ UNCHANGED besideWorker

\* the application drops its Sender, the last one of the command channel
DropSenders ==
    /\ senders = "held"
    /\ senders' = "dropped"
    /\ UNCHANGED << wpc, stack, log, runtime_rx, nsent, worker, runtime_state,
                    audio_output_buffer, mutex, output_buffer_len,
                    repaint_needed, samples, scanline_steps, data, fifo >>
    /\ UNCHANGED besideWorker

\* the for loop of dispatch_event: the running call dispatches its next
\* response
DispatchResponse ==
    /\ stack # << >>
    /\ LET d == Dispatching(stack)
           call == stack[d]
       IN  /\ ~Exhausted(call)
           /\ Enter(call.responses[call.next], Append(call.path, call.next),
                    [stack EXCEPT ![d].next = call.next + 1])
    /\ UNCHANGED << wpc, runtime_rx, nsent, audio_output_buffer, mutex,
                    output_buffer_len, repaint_needed, samples, scanline_steps >>
    /\ UNCHANGED data
    /\ UNCHANGED fifo
    /\ UNCHANGED senders
    /\ UNCHANGED besideWorker

\* the for loop of dispatch_event is over: the running call returns
DispatchReturn ==
    /\ stack # << >>
    /\ LET d == Dispatching(stack)
           call == stack[d]
           top == stack[Len(stack)]
       IN  /\ Exhausted(call)
           /\ stack' = SubSeq(stack, 1, Len(stack) - 1)
           /\ log' = Append(log, [op |-> "end", event |-> top.event,
                                  path |-> top.path, responses |-> top.responses,
                                  origins |-> top.origins])
    /\ UNCHANGED << wpc, runtime_rx, nsent, worker, runtime_state,
                    audio_output_buffer, mutex, output_buffer_len,
                    repaint_needed, samples, scanline_steps >>
    /\ UNCHANGED data
    /\ UNCHANGED fifo
    /\ UNCHANGED senders
    /\ UNCHANGED besideWorker

\* step_emulator: lock AUDIO_OUTPUT_BUFFER for the initial poll
PollLock ==
    /\ wpc = "poll_lock"
    /\ mutex = "free"
    /\ mutex' = "worker"
    /\ wpc' = "poll"
    /\ scanline_steps' = 0
    /\ UNCHANGED << stack, log, runtime_rx, nsent, worker, runtime_state,
                    audio_output_buffer, output_buffer_len, repaint_needed,
                    samples >>
    /\ UNCHANGED data
    /\ UNCHANGED fifo
    /\ UNCHANGED senders
    /\ UNCHANGED besideWorker

\* step_emulator: read the length, drop the lock
Poll ==
    /\ wpc = "poll"
    /\ output_buffer_len' = audio_output_buffer
    /\ mutex' = drop(mutex)
    /\ repaint_needed' = FALSE
    /\ wpc' = "loop"
    /\ UNCHANGED << stack, log, runtime_rx, nsent, worker, runtime_state,
                    audio_output_buffer, samples, scanline_steps >>
    /\ UNCHANGED data
    /\ UNCHANGED fifo
    /\ UNCHANGED senders
    /\ UNCHANGED besideWorker

\* step_emulator: while output_buffer_len < 512
LoopTest ==
    /\ wpc = "loop"
    /\ wpc' = IF BelowMark(output_buffer_len) THEN "scanline" ELSE "repaint"
    /\ UNCHANGED << stack, log, runtime_rx, nsent, worker, runtime_state,
                    audio_output_buffer, mutex, output_buffer_len,
                    repaint_needed, samples, scanline_steps >>
    /\ UNCHANGED data
    /\ UNCHANGED fifo
    /\ UNCHANGED senders
    /\ UNCHANGED besideWorker

\* step_emulator: dispatch_event(NesRunScanline)
RunScanline ==
    /\ wpc = "scanline"
    /\ stack = << >>
    /\ Enter("NesRunScanline", << >>, << >>)
    /\ wpc' = "frame"
    /\ scanline_steps' = IF scanline_steps < StepsCounted
                         THEN scanline_steps + 1 ELSE scanline_steps
    /\ UNCHANGED << runtime_rx, nsent, audio_output_buffer, mutex,
                    output_buffer_len, repaint_needed, samples >>
    /\ UNCHANGED data
    /\ UNCHANGED fifo
    /\ UNCHANGED senders
    /\ UNCHANGED besideWorker

\* step_emulator: if the scanline completed a frame, dispatch_event(RequestFrame)
FrameCheck ==
    /\ wpc = "frame"
    /\ stack = << >>
    /\ IF FrameComplete(runtime_state)
       THEN /\ Enter("RequestFrame", << >>, << >>)
            /\ repaint_needed' = TRUE
       ELSE UNCHANGED << stack, log, worker, runtime_state, repaint_needed >>
    /\ wpc' = "consume"
    /\ UNCHANGED << runtime_rx, nsent, audio_output_buffer, mutex,
                    output_buffer_len, samples, scanline_steps >>
    /\ UNCHANGED data
    /\ UNCHANGED fifo
    /\ UNCHANGED senders
    /\ UNCHANGED besideWorker

\* step_emulator: apu.consume_samples() and the conversion to f32
ConsumeSamples ==
    /\ wpc = "consume"
    /\ stack = << >>
    /\ runtime_state' = consume_samples(runtime_state).rs
    /\ samples' = consume_samples(runtime_state).samples
    /\ wpc' = "append_lock"
    /\ UNCHANGED << stack, log, runtime_rx, nsent, worker, audio_output_buffer,
                    mutex, output_buffer_len, repaint_needed, scanline_steps >>
    /\ UNCHANGED data
    /\ UNCHANGED fifo
    /\ UNCHANGED senders
    /\ UNCHANGED besideWorker

\* step_emulator: lock AUDIO_OUTPUT_BUFFER for the append
AppendLock ==
    /\ wpc = "append_lock"
    /\ mutex = "free"
    /\ mutex' = "worker"
    /\ wpc' = "append"
    /\ UNCHANGED << stack, log, runtime_rx, nsent, worker, runtime_state,
                    audio_output_buffer, output_buffer_len, repaint_needed,
                    samples, scanline_steps >>
    /\ UNCHANGED data
    /\ UNCHANGED fifo
    /\ UNCHANGED senders
    /\ UNCHANGED besideWorker

\* step_emulator: extend the queue, read the length again, drop the lock
AppendSamples ==
    /\ wpc = "append"
    /\ audio_output_buffer' = audio_output_buffer + samples
    /\ output_buffer_len' = audio_output_buffer + samples
    /\ fifo' = extend(fifo, Runs(samples))
    /\ mutex' = drop(mutex)
    /\ samples' = 0
    /\ wpc' = "loop"
    /\ UNCHANGED << stack, log, runtime_rx, nsent, worker, runtime_state,
                    repaint_needed, scanline_steps >>
    /\ UNCHANGED data
    /\ UNCHANGED senders
    /\ UNCHANGED besideWorker

\* step_emulator: send ImageRendered if a frame was completed, and return
Repaint ==
    /\ wpc = "repaint"
    /\ worker' = IF repaint_needed
                 THEN [worker EXCEPT !.shell_tx =
                           Sent(@, ShellEvent("ImageRendered", "frame"), MaxShell)]
                 ELSE worker
    /\ repaint_needed' = FALSE
    /\ output_buffer_len' = 0
    /\ wpc' = "sleep"
    /\ UNCHANGED << stack, log, runtime_rx, nsent, runtime_state,
                    audio_output_buffer, mutex, samples, scanline_steps >>
    /\ UNCHANGED data
    /\ UNCHANGED fifo
    /\ UNCHANGED senders
    /\ UNCHANGED besideWorker

\* worker_main: sleep, then the exit check; after the loop, sleep again
Sleep ==
    /\ wpc = "sleep"
    /\ wpc' = IF worker.exit_requested THEN "final_events" ELSE "events"
    /\ UNCHANGED << stack, log, runtime_rx, nsent, worker, runtime_state,
                    audio_output_buffer, mutex, output_buffer_len,
                    repaint_needed, samples, scanline_steps >>
    /\ UNCHANGED data
    /\ UNCHANGED fifo
    /\ UNCHANGED senders
    /\ UNCHANGED besideWorker

\* the audio thread's callback is invoked for a block of BlockSize slots and
\* locks AUDIO_OUTPUT_BUFFER
AudioLock ==
    /\ mutex = "free"
    /\ mutex' = "audio"
    /\ UNCHANGED << wpc, stack, log, runtime_rx, nsent, worker, runtime_state,
                    audio_output_buffer, output_buffer_len, repaint_needed,
                    samples, scanline_steps, data >>
    /\ UNCHANGED fifo
    /\ UNCHANGED senders
    /\ UNCHANGED besideWorker

\* the audio thread's callback, holding the lock: drain one block into the
\* output or fill the output with EQUILIBRIUM, then return, which unlocks
AudioCallback ==
    /\ mutex = "audio"
    /\ audio_output_buffer' = output_callback(audio_output_buffer, BlockSize).queue
    /\ data' = output_callback(audio_output_buffer, BlockSize).data
    /\ fifo' = LET block == output_callback(audio_output_buffer, BlockSize).data
                   drained == drain(fifo.queue, Runs(block.samples))
               IN  Written([fifo EXCEPT !.queue = drained.rest], drained.taken)
    /\ mutex' = "free"
    /\ UNCHANGED << wpc, stack, log, runtime_rx, nsent, worker, runtime_state,
                    output_buffer_len, repaint_needed, samples, scanline_steps >>
    /\ UNCHANGED senders
    /\ UNCHANGED besideWorker

\* one call of process_incoming_events, with the application sending
DispatchNext ==
    \/ SendCommand
    \/ RecvEvent
    \/ RecvEmpty
    \/ DispatchResponse
    \/ DispatchReturn

\* the worker's steps while no command arrives
PacingWorker ==
    \/ RecvEmpty
    \/ PollLock
    \/ Poll
    \/ LoopTest
    \/ RunScanline
    \/ DispatchResponse
    \/ DispatchReturn
    \/ FrameCheck
    \/ ConsumeSamples
    \/ AppendLock
    \/ AppendSamples
    \/ Repaint
    \/ Sleep

\* the audio thread's steps
AudioThread ==
    \/ AudioLock
    \/ AudioCallback

PacingNext ==
    \/ PacingWorker
    \/ AudioThread

\* worker_main with the application sending commands, while the audio
\* thread takes no step
WorkerNext ==
    \/ SendCommand
    \/ RecvEvent
    \/ PacingWorker

\* the worker starts on a channel that holds the commands the application
\* sent since it created the channel
DisconnectInit ==
    /\ \E n \in 0 .. MaxCommands :
          \E sent \in [1 .. n -> Commands] :
             /\ runtime_rx = sent
             /\ nsent = n
    /\ wpc = "events"
    /\ stack = << >>
    /\ log = << >>
    /\ worker = Worker_new
    /\ runtime_state = RuntimeState_new
    /\ audio_output_buffer = 0
    /\ mutex = "free"
    /\ output_buffer_len = 0
    /\ repaint_needed = FALSE
    /\ samples = 0
    /\ scanline_steps = 0
    /\ data = [samples |-> 0, equilibrium |-> 0]
    /\ fifo = Fifo_new
    /\ senders = "held"
    /\ NromParked
    /\ NoiseParked
    /\ PianoParked

\* worker_main with an application that sends nothing more and may drop the
\* channel's senders, while the audio thread takes no step
DisconnectNext ==
    \/ DropSenders
    \/ RecvEvent
    \/ PacingWorker

(***************************************************************************)
(* Properties of the worker.                                               *)
(***************************************************************************)
IsPrefix(p, q) == Len(p) <= Len(q) /\ SubSeq(q, 1, Len(p)) = p

\* the dispatch of the call at position x of the cascade spans log[a..c], and
\* everything the cascade of x holds lies inside: every call below x begins
\* and ends there, and every response of every such call is dispatched there
FullyDispatched(x, a, c) ==
    /\ a < c
    /\ log[a].op = "begin" /\ log[a].path = x
    /\ log[c].op = "end" /\ log[c].path = x
    /\ \A k \in 1 .. Len(log) : IsPrefix(x, log[k].path) => (a <= k /\ k <= c)
    /\ \A k \in a .. c :
          log[k].op = "begin" =>
             /\ \E e \in k + 1 .. c :
                   log[e].op = "end" /\ log[e].path = log[k].path
             /\ \A r \in 1 .. Len(log[k].responses) :
                   \E m \in k + 1 .. c :
                      /\ log[m].op = "begin"
                      /\ log[m].path = Append(log[k].path, r)
                      /\ log[m].event = log[k].responses[r]

\* C17: dispatch is depth-first: when the dispatch of a follow-up Y begins,
\* every earlier follow-up X of the same event, with every event X
\* transitively produced, has been dispatched to completion.
C17_DepthFirst ==
    \A b \in 1 .. Len(log) :
       (log[b].op = "begin" /\ log[b].path # << >>) =>
          LET parent == SubSeq(log[b].path, 1, Len(log[b].path) - 1)
              j == log[b].path[Len(log[b].path)]
          IN  \A i \in 1 .. j - 1 :
                 \E a \in 1 .. b - 1, c \in 1 .. b - 1 :
                    FullyDispatched(Append(parent, i), a, c)

\* a command produced [X, Y], X produced a follow-up of its own, and the
\* dispatch of Y has begun
C17_Witness ==
    \E b \in 1 .. Len(log), k \in 1 .. Len(log) :
       /\ log[b].op = "begin" /\ log[b].path = << 2 >>
       /\ log[k].op = "end" /\ log[k].path = << 1, 1 >>
       /\ k < b

\* the worker is inside step_emulator
InStepEmulator ==
    wpc \in {"poll", "loop", "scanline", "frame", "consume", "append_lock",
             "append", "repaint"}

C18_WitnessEmpty ==
    /\ wpc = "loop"
    /\ scanline_steps = 1
    /\ output_buffer_len >= 1

\* C19 as stated: every call of step_emulator returns to worker_main
C19_PacingYields == (wpc = "poll") ~> (wpc = "sleep")

\* the event of the latest top-level dispatch_event call, and whether that
\* call has returned
LastDispatch == IF log = << >> THEN "none" ELSE log[1].event
DispatchComplete ==
    /\ stack = << >>
    /\ log # << >>
    /\ log[Len(log)].op = "end" /\ log[Len(log)].path = << >>

\* C20: in step_emulator, a scanline step that leaves the PPU at scanline
\* 242 is followed by one dispatch of RequestFrame, begun after the dispatch
\* of the scanline has returned and finished before the samples are consumed
\* and the next scanline step runs; after any other scanline step no
\* RequestFrame is dispatched.
C20_FrameComplete ==
    /\ []((wpc = "frame" /\ stack = << >>) =>
            (LastDispatch = "NesRunScanline" /\ DispatchComplete))
    /\ []((/\ wpc \in {"consume", "append_lock", "append", "loop", "scanline"}
           /\ scanline_steps >= 1 /\ stack = << >>) =>
            IF runtime_state.nes.ppu.current_scanline = 242
            THEN /\ LastDispatch = "RequestFrame" /\ DispatchComplete
                 /\ Len(log) = 2
                 /\ (wpc # "scanline" => repaint_needed)
            ELSE LastDispatch = "NesRunScanline" /\ DispatchComplete)
    /\ [][/\ ((stack = << >> /\ stack' # << >> /\ stack'[1].event = "RequestFrame") =>
                /\ wpc = "frame" /\ wpc' = "consume"
                /\ runtime_state.nes.ppu.current_scanline = 242
                /\ LastDispatch = "NesRunScanline" /\ DispatchComplete)
          /\ ((stack = << >> /\ stack' # << >> /\ stack'[1].event = "NesRunScanline") =>
                (wpc = "scanline" /\ wpc' = "frame"))
          /\ ((wpc = "frame" /\ wpc' # wpc
                 /\ runtime_state.nes.ppu.current_scanline # 242) =>
                (stack' = << >> /\ log' = log /\ wpc' = "consume"))
          /\ ((wpc' = "scanline" /\ wpc # "scanline") => wpc = "loop")
          /\ ((wpc' = "loop" /\ wpc # "loop") => wpc \in {"poll", "append"})
          /\ ((wpc' = "append" /\ wpc # "append") => wpc = "append_lock")
          /\ ((wpc' = "append_lock" /\ wpc # "append_lock") => wpc = "consume")
          /\ ((wpc' = "consume" /\ wpc # "consume") => wpc = "frame")]_vars

\* the scanline step left the PPU at scanline 242, RequestFrame has been
\* dispatched and the samples of that scanline are about to be appended
C20_Witness ==
    /\ wpc = "append"
    /\ runtime_state.nes.ppu.current_scanline = 242
    /\ LastDispatch = "RequestFrame"
    /\ repaint_needed

\* C21: the queue is read and written only by the thread that holds its
\* mutex; the worker holds the mutex for the poll and for the append only,
\* never while a dispatch_event call runs, and releases it in its next step,
\* so that the mutex is free when the worker comes back to the loop test
\* that precedes every scanline step.
C21_MutexDiscipline ==
    /\ [](mutex = "worker" <=> wpc \in {"poll", "append"})
    /\ [](mutex = "worker" => stack = << >>)
    /\ [][/\ (audio_output_buffer' # audio_output_buffer =>
                \/ (mutex = "worker" /\ wpc = "append")
                \/ (mutex = "audio" /\ wpc' = wpc))
          /\ ((output_buffer_len' # output_buffer_len /\ wpc' # "sleep") =>
                mutex = "worker")
          /\ (data' # data => mutex = "audio")
          /\ ((stack' # stack \/ log' # log) =>
                (mutex # "worker" /\ mutex' # "worker"))
          /\ ((mutex = "worker" /\ wpc' # wpc) =>
                (wpc' = "loop" /\ mutex' = "free"))
          /\ ((wpc' = "scanline" /\ wpc # "scanline") =>
                (wpc = "loop" /\ mutex # "worker"))]_vars

\* the audio callback holds the lock between two scanline steps of one
\* step_emulator call
C21_Witness ==
    /\ mutex = "audio"
    /\ wpc = "loop"
    /\ scanline_steps = 1
    /\ BelowMark(output_buffer_len)

\* the audio callback returns in this step
CallbackStep == mutex = "audio" /\ mutex' = "free"

\* C22: a callback that finds fewer samples queued than its block holds
\* fills the block with EQUILIBRIUM, leaves the queue alone and returns in
\* the same step, whatever the worker is doing; every invocation writes
\* every slot of its block.
C22_SilenceOnUnderrun ==
    /\ [](data.samples + data.equilibrium \in {0, BlockSize})
    /\ [](mutex = "audio" => ENABLED AudioCallback)
    /\ [][CallbackStep =>
            /\ data'.samples + data'.equilibrium = BlockSize
            /\ wpc' = wpc /\ stack' = stack
            /\ (audio_output_buffer < BlockSize =>
                  /\ data' = [samples |-> 0, equilibrium |-> BlockSize]
                  /\ audio_output_buffer' = audio_output_buffer)]_vars

\* a block of silence has been written while the queue is short of a block
\* and the worker is in the middle of a scanline step
C22_Witness ==
    /\ data = [samples |-> 0, equilibrium |-> BlockSize]
    /\ audio_output_buffer = 128
    /\ mutex = "free"
    /\ wpc = "frame"
    /\ scanline_steps = 2

\* C23 as stated: a callback invoked with k samples queued for a block of n
\* slots moves min(k, n) samples from the queue into the block and writes
\* EQUILIBRIUM to the other n - min(k, n) slots.
C23_DrainsUpToBlock ==
    [][CallbackStep =>
         LET k == audio_output_buffer
             drained == IF k < BlockSize THEN k ELSE BlockSize
         IN  /\ data'.samples = drained
             /\ data'.equilibrium = BlockSize - drained
             /\ audio_output_buffer' = k - drained]_vars

\* this step enters dispatch_event(event)
Begins(event) ==
    /\ Len(stack') = Len(stack) + 1
    /\ stack'[Len(stack')].event = event

\* C24: the dispatch of CloseApplication sets exit_requested, which is never
\* reset; the exit check that follows the sleep then leaves the loop, and
\* after the loop the command channel is drained once more: worker_main
\* finishes only when that drain has found the channel empty, every command
\* it received having been dispatched to completion.
C24_CooperativeShutdown ==
    /\ [](wpc \in {"final_events", "finished"} => worker.exit_requested)
    /\ [](wpc = "finished" => (runtime_rx = << >> /\ stack = << >>))
    /\ [][/\ (Begins("CloseApplication") => worker'.exit_requested)
          /\ (worker.exit_requested => worker'.exit_requested)
          /\ ((wpc = "sleep" /\ wpc' # wpc) =>
                wpc' = IF worker.exit_requested THEN "final_events" ELSE "events")
          /\ ((wpc' = "final_events" /\ wpc # wpc') => wpc = "sleep")
          /\ ((wpc = "final_events" /\ wpc' # wpc) =>
                (wpc' = "finished" /\ runtime_rx = << >> /\ stack = << >>
                   /\ (log # << >> => DispatchComplete)))
          /\ ((wpc = "final_events" /\ Len(runtime_rx') < Len(runtime_rx)) =>
                /\ runtime_rx' = Tail(runtime_rx)
                /\ Begins(Head(runtime_rx))
                /\ stack = << >>)
          /\ (wpc = "finished" => UNCHANGED workerVars)]_vars

\* a SaveSram sent after the loop was left is being dispatched by the final
\* drain
C24_Witness ==
    /\ wpc = "final_events"
    /\ stack # << >>
    /\ stack[1].event = "SaveSram"
    /\ worker.sram_file = "written"

\* worker_main has finished after a final drain that dispatched a command
C24_WitnessFinished ==
    /\ wpc = "finished"
    /\ nsent = MaxCommands
    /\ LastDispatch = "SaveSram"

\* C25: a SaveSram whose file cannot be created or written changes neither
\* exit_requested nor the runtime state nor the place of the worker in
\* worker_main, and sends nothing to the shell; a command received after it
\* is dispatched.
C25_SaveFailureContained ==
    /\ []((wpc \in {"events", "final_events"} /\ stack = << >>
             /\ runtime_rx # << >>) => ENABLED RecvEvent)
    /\ [][Begins("SaveSram") =>
            /\ worker'.exit_requested = worker.exit_requested
            /\ worker'.shell_tx = worker.shell_tx
            /\ runtime_state' = runtime_state
            /\ wpc' = wpc
            /\ audio_output_buffer' = audio_output_buffer]_vars

\* the file of a SaveSram could not be created, and the command sent after
\* it has been dispatched
C25_Witness ==
    /\ worker.stdout = << "Couldn't open" >>
    /\ worker.sram_file = "untouched"
    /\ ~worker.exit_requested
    /\ LastDispatch = "ApplyStringSetting"
    /\ DispatchComplete
    /\ nsent = 2

\* C26 as stated: every SaveSram prints one line; a save that could not
\* create the file or could not write the data prints a failure line, and
\* the success line is printed only when the data is in the file.
C26_SaveFailuresReported ==
    [][Begins("SaveSram") =>
         LET line == worker'.stdout[Len(worker'.stdout)]
         IN  /\ line \in {"Couldn't open", "Wrote sram data"}
             /\ (line = "Wrote sram data" => worker'.sram_file = "written")
             /\ (worker'.sram_file = "created" => line = "Couldn't open")]_vars

\* the most samples one scanline step produces
MostScanlineSamples ==
    CHOOSE m \in ScanlineSamples : \A x \in ScanlineSamples : x <= m

Events == HardwareTicks \cup HostCommands

\* what dispatch_event(event) sends to the shell, when Worker::handle_event
\* passes on the settings events in forwarded: one SettingsUpdated with the
\* settings as the runtime state has left them, one HasSram for
\* CartridgeLoaded, nothing for any other event
Notifies(forwarded) ==
    \A e \in Events :
       Begins(e) =>
          worker'.shell_tx =
             IF e \in forwarded
             THEN Sent(worker.shell_tx,
                       ShellEvent("SettingsUpdated", runtime_state'.settings), MaxShell)
             ELSE IF e = "CartridgeLoaded"
             THEN Sent(worker.shell_tx, ShellEvent("HasSram", "has_sram"), MaxShell)
             ELSE worker.shell_tx

\* C28 as stated: SettingsUpdated follows ApplyIntegerSetting,
\* ApplyBooleanSetting and ApplyStringSetting and no other event.
C28_Original ==
    [][Notifies({"ApplyIntegerSetting", "ApplyBooleanSetting",
                 "ApplyStringSetting"})]_vars

\* C28: handle_event sends exactly one SettingsUpdated for each
\* ApplyIntegerSetting, ApplyBooleanSetting, ApplyFloatSetting and
\* ApplyStringSetting event, carrying the settings with that event applied,
\* exactly one HasSram for each CartridgeLoaded and nothing for any other
\* event; it returns no follow-up events.
C28_ShellNotifications ==
    /\ [](\A e \in Events, file \in FileOutcomes :
             handle_event(worker, runtime_state, e, file).events = << >>)
    /\ [][/\ Notifies(ApplySettings)
          /\ \A e \in ApplySettings : Begins(e) => runtime_state'.settings = e
          /\ (worker'.shell_tx # worker.shell_tx => \E e \in Events : Begins(e))]_vars

\* the latest notification is the SettingsUpdated of an ApplyFloatSetting
C28_Witness ==
    /\ worker.shell_tx # << >>
    /\ worker.shell_tx[Len(worker.shell_tx)] =
          ShellEvent("SettingsUpdated", "ApplyFloatSetting")
    /\ runtime_state.settings = "ApplyFloatSetting"

\* the positions of the log where the call at position path begins or ends
Entries(op, path) ==
    {m \in 1 .. Len(log) : log[m].op = op /\ log[m].path = path}

\* every call of the cascade has begun once and ended once, every response
\* of every call has been dispatched once, as the call one level down, and
\* no other call was made
CascadeDispatchedOnce ==
    \A k \in 1 .. Len(log) :
       /\ Cardinality(Entries("begin", log[k].path)) = 1
       /\ Cardinality(Entries("end", log[k].path)) = 1
       /\ log[k].op = "begin" =>
             /\ \A r \in 1 .. Len(log[k].responses) :
                   \E m \in Entries("begin", Append(log[k].path, r)) :
                      log[m].event = log[k].responses[r]
             /\ log[k].path # << >> =>
                   LET parent == SubSeq(log[k].path, 1, Len(log[k].path) - 1)
                       r == log[k].path[Len(log[k].path)]
                   IN  \E m \in Entries("begin", parent) :
                          /\ r <= Len(log[m].responses)
                          /\ log[m].responses[r] = log[k].event

\* C30: a dispatch_event call whose cascade is finite returns, and when it
\* returns every follow-up produced anywhere in the cascade has been
\* dispatched exactly once; the next dispatch starts from its own event
\* alone, with nothing left over from the one before.
C30_NoPendingWork ==
    /\ [](DispatchComplete => CascadeDispatchedOnce)
    /\ [](stack = << >> => (log = << >> \/ DispatchComplete))
    /\ [][(stack = << >> /\ stack' # << >>) =>
            /\ Len(stack') = 1 /\ stack'[1].path = << >> /\ stack'[1].next = 1
            /\ Len(log') = 1 /\ log'[1].event = stack'[1].event
            /\ log'[1].responses = stack'[1].responses]_vars
    /\ ((stack # << >>) ~> (stack = << >>))

\* a cascade three levels deep with five calls has returned
C30_Witness ==
    /\ DispatchComplete
    /\ Len(log) >= 10
    /\ Entries("end", << 1, 1 >>) # {}
    /\ Entries("end", << 3 >>) # {}

\* C31: step_emulator leaves its loop only on an observed length of 512 or
\* more, the length having been read under the lock at the poll or after
\* an append; below 512 it goes on, and each pass of the loop is one
\* scanline step, then one append of exactly the samples that step left
\* in the APU.
C31_BurstUntilMark ==
    /\ [](wpc = "repaint" => output_buffer_len >= 512)
    /\ [](wpc \in {"loop", "scanline"} => runtime_state.nes.apu.samples = 0)
    /\ []((wpc \in {"frame", "consume"} /\ stack = << >>) =>
            (runtime_state.nes.apu.samples \in ScanlineSamples /\ samples = 0))
    /\ [](wpc \in {"append_lock", "append"} =>
            (samples \in ScanlineSamples /\ runtime_state.nes.apu.samples = 0))
    /\ [][/\ ((wpc = "loop" /\ wpc' # wpc) =>
                wpc' = IF output_buffer_len < 512 THEN "scanline" ELSE "repaint")
          /\ ((wpc' = "repaint" /\ wpc # wpc') => wpc = "loop")
          /\ ((wpc' = "sleep" /\ wpc # wpc') => wpc = "repaint")
          /\ (output_buffer_len' # output_buffer_len =>
                \/ (wpc = "poll" /\ output_buffer_len' = audio_output_buffer)
                \/ (wpc = "append" /\ output_buffer_len' = audio_output_buffer')
                \/ wpc' = "sleep")
          /\ ((wpc = "scanline" /\ wpc' # wpc) =>
                (Begins("NesRunScanline") /\ wpc' = "frame"))
          /\ (Begins("NesRunScanline") => wpc = "scanline")
          /\ ((wpc = "consume" /\ wpc' # wpc) =>
                (samples' = runtime_state.nes.apu.samples /\ wpc' = "append_lock"))
          /\ ((wpc = "append_lock" /\ wpc' # wpc) => wpc' = "append")
          /\ ((wpc = "append" /\ wpc' # wpc) =>
                /\ audio_output_buffer' = audio_output_buffer + samples
                /\ wpc' = "loop")
          /\ ((audio_output_buffer' > audio_output_buffer) => wpc = "append")]_vars

\* a call that found the queue short ran scanline steps and is leaving the
\* loop on a length read after its last append, while the callback has
\* since taken a block
C31_Witness ==
    /\ wpc = "repaint"
    /\ scanline_steps = StepsCounted
    /\ output_buffer_len = 512
    /\ audio_output_buffer = 256

\* the place of a handler in dispatch_event
HandlerRank(handler) ==
    CASE handler = "runtime_state" -> 1
      [] handler = "game_window" -> 2
      [] handler = "worker" -> 3

\* C34: a step that enters dispatch_event lets the runtime state handle the
\* event and then the worker, which sees the runtime state that has handled
\* it, and no follow-up of the call is dispatched in that step; the
\* follow-ups are dispatched in the order collected: the runtime state's
\* responses, then the game window's, then the worker's.
C34_HandlerOrder ==
    /\ [](\A k \in 1 .. Len(log) :
             /\ Len(log[k].origins) = Len(log[k].responses)
             /\ \A i \in 1 .. Len(log[k].origins), j \in 1 .. Len(log[k].origins) :
                   i < j =>
                      /\ HandlerRank(log[k].origins[i]) <= HandlerRank(log[k].origins[j])
                      /\ (log[k].op = "begin" =>
                            \A n \in Entries("begin", Append(log[k].path, j)) :
                               \E m \in Entries("end", Append(log[k].path, i)) : m < n))
    /\ [][\A e \in Events :
            Begins(e) =>
               /\ \E produced \in ScanlineSamples \cup {0} :
                     runtime_state' = RuntimeState_handle_event(runtime_state, e, produced)
               /\ \E file \in FileOutcomes :
                     worker' = handle_event(worker, runtime_state', e, file).worker
               /\ stack'[Len(stack')].next = 1
               /\ log'[Len(log')].op = "begin"
               /\ log'[Len(log')].path = stack'[Len(stack')].path
               /\ \A m \in 1 .. Len(log') - 1 :
                     ~IsPrefix(log'[Len(log')].path, log'[m].path)]_vars

\* a command whose runtime state returned two follow-ups and whose game
\* window returned one has been dispatched with its cascade
C34_Witness ==
    /\ DispatchComplete
    /\ log[1].origins = << "runtime_state", "runtime_state", "game_window" >>
    /\ log[1].responses =
          << "CartridgeLoaded", "ApplyBooleanSetting", "ApplyIntegerSetting" >>

\* C35: the dispatch of CloseApplication leaves the worker in the drain it
\* is in: the commands queued behind it are received and dispatched until
\* the channel is empty, then step_emulator is called once more, scanline
\* steps and appends included, and only the exit check after it ends the
\* loop.
C35_CloseIsDeferred ==
    /\ []((worker.exit_requested /\ wpc = "events" /\ stack = << >>
             /\ runtime_rx # << >>) => ENABLED RecvEvent)
    /\ [][/\ (Begins("CloseApplication") => wpc' = wpc)
          /\ ((worker'.exit_requested /\ ~worker.exit_requested) =>
                (wpc \in {"events", "final_events"} /\ Begins("CloseApplication")))
          /\ ((wpc = "events" /\ wpc' # wpc) =>
                (wpc' = "poll_lock" /\ runtime_rx = << >> /\ stack = << >>))
          /\ ((wpc = "poll_lock" /\ wpc' # wpc) => wpc' = "poll")
          /\ ((wpc = "poll" /\ wpc' # wpc) => wpc' = "loop")
          /\ ((wpc = "loop" /\ wpc' # wpc) =>
                wpc' = IF BelowMark(output_buffer_len) THEN "scanline" ELSE "repaint")
          /\ ((wpc = "repaint" /\ wpc' # wpc) => wpc' = "sleep")
          /\ ((wpc' = "final_events" /\ wpc # wpc') => wpc = "sleep")]_vars

\* CloseApplication was dispatched with SaveSram queued behind it; SaveSram
\* has been dispatched in the same drain, and the step_emulator call that
\* follows has run scanline steps and is appending
C35_Witness ==
    /\ worker.exit_requested
    /\ worker.stdout = << "close requested", "Wrote sram data" >>
    /\ wpc = "append"
    /\ scanline_steps = StepsCounted
    /\ samples > 0

\* C36: the callback takes a whole block or nothing: with more than
\* BlockSize samples queued it removes BlockSize of them and the block it
\* writes holds samples only; with BlockSize samples or fewer queued it
\* removes nothing and the block holds EQUILIBRIUM only.
C36_AllOrNothing ==
    /\ [](data.samples \in {0, BlockSize} /\ data.equilibrium \in {0, BlockSize})
    /\ [][/\ (CallbackStep =>
                IF audio_output_buffer > BlockSize
                THEN /\ audio_output_buffer' = audio_output_buffer - BlockSize
                     /\ data' = [samples |-> BlockSize, equilibrium |-> 0]
                ELSE /\ audio_output_buffer' = audio_output_buffer
                     /\ data' = [samples |-> 0, equilibrium |-> BlockSize])
          /\ (audio_output_buffer' < audio_output_buffer =>
                (CallbackStep /\ audio_output_buffer' = audio_output_buffer - BlockSize))]_vars

\* the callback has written silence and the queue still holds exactly one
\* block, which the worker read at its poll
C36_Witness ==
    /\ data = [samples |-> 0, equilibrium |-> BlockSize]
    /\ audio_output_buffer = BlockSize
    /\ output_buffer_len = BlockSize
    /\ wpc = "loop"
    /\ scanline_steps = 0
    /\ mutex = "free"

\* C37: the samples written to the sink are, in order, the first samples
\* the worker appended, and the queue holds, in order, the samples appended
\* after them: none is written twice, left out or out of place, however
\* the worker and the callback interleave.
C37_FifoOrder ==
    /\ [](/\ Len(fifo.queue) * RunLength = audio_output_buffer
          /\ Len(fifo.sunk) <= fifo.appended
          /\ \A i \in 1 .. Len(fifo.sunk) : fifo.sunk[i] = i
          /\ \A i \in 1 .. Len(fifo.queue) :
                fifo.queue[i] = IF Len(fifo.sunk) + i <= RunsTracked
                                THEN Len(fifo.sunk) + i ELSE RunsTracked + 1)
    /\ [][/\ (fifo'.sunk # fifo.sunk =>
                (CallbackStep /\ data'.samples = BlockSize))
          /\ ((CallbackStep /\ data'.samples = BlockSize
                 /\ Len(fifo.sunk) + Runs(BlockSize) <= RunsTracked) =>
                fifo'.sunk = fifo.sunk \o SubSeq(fifo.queue, 1, Runs(BlockSize)))
          /\ ((wpc = "append" /\ wpc' # wpc) =>
                /\ SubSeq(fifo'.queue, 1, Len(fifo.queue)) = fifo.queue
                /\ Len(fifo'.queue) = Len(fifo.queue) + Runs(samples))]_vars

\* the first four runs appended have been written to the sink, in two
\* blocks, and later runs are queued
C37_Witness ==
    /\ fifo.sunk = << 1, 2, 3, 4 >>
    /\ fifo.queue # << >>
    /\ data.samples = BlockSize

\* a CloseApplication is still to be handled: it is queued in the channel
\* or it is the command being dispatched
CloseAhead ==
    \/ \E i \in 1 .. Len(runtime_rx) : runtime_rx[i] = "CloseApplication"
    \/ \E i \in 1 .. Len(stack) : stack[i].event = "CloseApplication"

\* the channel is disconnected and the worker was not asked to close
Orphaned ==
    /\ senders = "dropped"
    /\ ~worker.exit_requested
    /\ ~CloseAhead

TickEvents ==
    {"NesNewFrame", "NesNewScanline", "NesNewApuQuarterFrame",
     "NesNewApuHalfFrame"}

PollingTypes == {"PpuFrame", "PpuScanline", "ApuQuarterFrame", "ApuHalfFrame"}

ScrollDirections ==
    {"RightToLeft", "LeftToRight", "TopToBottom", "BottomToTop", "PlayerPiano"}

IntegerPaths ==
    {"piano_roll.canvas_width", "piano_roll.canvas_height",
     "piano_roll.key_thickness", "piano_roll.key_length",
     "piano_roll.octave_count", "piano_roll.scale_factor",
     "piano_roll.speed_multiplier", "piano_roll.starting_octave",
     "piano_roll.waveform_height", "piano_roll.unknown"}

\* the values each setting is given: canvases narrower than the channel
\* count and not a multiple of it, heights below and above key length plus
\* surfboard height
SettingValues(path) ==
    CASE path = "piano_roll.canvas_width" -> {5, 13}
      [] path = "piano_roll.canvas_height" -> {3, 200}
      [] path = "piano_roll.key_length" -> {1, 2000}
      [] path = "piano_roll.waveform_height" -> {0, 2}
      [] path = "piano_roll.speed_multiplier" -> {0, 2}
      [] path = "piano_roll.key_thickness" -> {8}
      [] path = "piano_roll.octave_count" -> {2}
      [] OTHER -> {1}

\* where the mouse clicks: left of the window, on the edges of the first
\* strip and of the last, and past the last strip
MouseXs ==
    LET n == Len(collect_channels(channels))
        w == piano.canvas.width \div n
    IN  {-1, 0, w, n * w - 1, n * w}

\* above the window, on the surfboard's first row, and just below it
MouseYs == {-1, 0, piano.surfboard_height}

\* the window is constructed; the cartridge's mapper has no audio channel
\* or one; the build checks integer overflow or not
PianoInit ==
    /\ piano = PianoRollWindow_new
    /\ channels \in {Channels_new(0), Channels_new(1)}
    /\ pevents = << >>
    /\ pcount = 0
    /\ ppanic = FALSE
    /\ overflow_checks \in BOOLEAN
    /\ pop = [event |-> "new", args |-> << >>]
    /\ NromParked
    /\ NoiseParked
    /\ WorkerParked

\* the window's thread runs and may handle one more event
Handling == ~ppanic /\ pcount < MaxPianoEvents

\* handle_event of a tick event: on the tick of the polling type the window
\* updates; roll_width panics in the while loop's test when it overflows in
\* a build that checks
Tick ==
    /\ Handling
    /\ \E event \in TickEvents :
          /\ pop' = [event |-> event, args |-> << >>]
          /\ IF event # TickOf(piano.polling_type)
             THEN UNCHANGED << piano, ppanic >>
             ELSE IF roll_width_overflows(piano) /\ overflow_checks
                  THEN /\ piano' = [piano EXCEPT
                                      !.time_slices = Pushed(piano, pcount + 1)]
                       /\ ppanic' = TRUE
                  ELSE /\ piano' = update(piano, pcount + 1)
                       /\ UNCHANGED ppanic
    /\ pcount' = pcount + 1
    /\ pevents' = << >>
    /\ UNCHANGED << channels, overflow_checks >>
    /\ UNCHANGED besidePiano

\* handle_event of ApplyIntegerSetting(path, value)
IntegerSetting ==
    /\ Handling
    /\ \E path \in IntegerPaths :
          \E value \in SettingValues(path) :
             /\ piano' = ApplyIntegerSetting(piano, path, value)
             /\ pop' = [event |-> "ApplyIntegerSetting", args |-> << path, value >>]
    /\ pcount' = pcount + 1
    /\ pevents' = << >>
    /\ UNCHANGED << channels, ppanic, overflow_checks >>
    /\ UNCHANGED besidePiano

\* handle_event of MouseClick(x, y)
MouseClick ==
    /\ Handling
    /\ \E mx \in MouseXs :
          \E my \in MouseYs :
             /\ pevents' = mouse_click(piano, collect_channels(channels), mx, my)
             /\ pop' = [event |-> "MouseClick", args |-> << mx, my >>]
    /\ pcount' = pcount + 1
    /\ UNCHANGED << piano, channels, ppanic, overflow_checks >>
    /\ UNCHANGED besidePiano

\* handle_event of ShowPianoRollWindow and of CloseWindow
ShowOrClose ==
    /\ Handling
    /\ \E event \in {"ShowPianoRollWindow", "CloseWindow"} :
          /\ piano' = [piano EXCEPT !.shown = (event = "ShowPianoRollWindow")]
          /\ pop' = [event |-> event, args |-> << >>]
    /\ pcount' = pcount + 1
    /\ pevents' = << >>
    /\ UNCHANGED << channels, ppanic, overflow_checks >>
    /\ UNCHANGED besidePiano

\* the application assigns the public field polling_type
SetPollingType ==
    /\ Handling
    /\ \E t \in PollingTypes \ {piano.polling_type} :
          /\ piano' = [piano EXCEPT !.polling_type = t]
          /\ pop' = [event |-> "polling_type", args |-> << t >>]
    /\ pcount' = pcount + 1
    /\ pevents' = << >>
    /\ UNCHANGED << channels, ppanic, overflow_checks >>
    /\ UNCHANGED besidePiano

\* the application assigns the public field scroll_direction
SetScrollDirection ==
    /\ Handling
    /\ \E d \in ScrollDirections \ {piano.scroll_direction} :
          /\ piano' = [piano EXCEPT !.scroll_direction = d]
          /\ pop' = [event |-> "scroll_direction", args |-> << d >>]
    /\ pcount' = pcount + 1
    /\ pevents' = << >>
    /\ UNCHANGED << channels, ppanic, overflow_checks >>
    /\ UNCHANGED besidePiano

\* the runtime handles the event a click returned: the channel is muted or
\* unmuted
ApplyMute ==
    /\ ~ppanic
    /\ pevents # << >>
    /\ LET e == Head(pevents)
           n == Len(channels.apu)
           m == Len(channels.mapper)
           flag == (e.kind = "MuteChannel")
       IN  channels' =
              IF e.index < n
              THEN [channels EXCEPT !.apu[e.index + 1] = flag]
              ELSE IF e.index < n + m
                   THEN [channels EXCEPT !.mapper[e.index - n + 1] = flag]
                   ELSE [channels EXCEPT !.mix = flag]
    /\ pevents' = Tail(pevents)
    /\ pop' = [event |-> Head(pevents).kind, args |-> << Head(pevents).index >>]
    /\ UNCHANGED << piano, pcount, ppanic, overflow_checks >>
    /\ UNCHANGED besidePiano

\* the window sampling the channels
PianoNext ==
    \/ Tick
    \/ IntegerSetting
    \/ SetPollingType

\* the window under the mouse
PianoClickNext ==
    \/ MouseClick
    \/ ApplyMute
    \/ IntegerSetting
    \/ SetScrollDirection
    \/ ShowOrClose

(***************************************************************************)
(* Properties of the piano roll window.                                    *)
(***************************************************************************)
\* the window has just handled a click
Clicked == pcount' = pcount + 1 /\ pop'.event = "MouseClick"

\* the point (x, y) lies in the surfboard strip of channel i of n
InStrip(i, n, x, y) ==
    LET w == piano.canvas.width \div n
    IN  /\ x \in i * w .. i * w + w - 1
        /\ y \in 0 .. piano.surfboard_height - 1

\* C39: a mouse click returns at most one event: in TopToBottom mode a
\* click in the surfboard strip of channel i returns UnmuteChannel(i) if
\* that channel is muted and MuteChannel(i) if not; a click with a negative
\* coordinate, in no strip, or in another scroll mode returns nothing; the
\* handler changes no mute flag (nor the window).
C39_ClickMutes ==
    [][Clicked =>
         LET x == pop'.args[1]
             y == pop'.args[2]
             chs == collect_channels(channels)
             n == Len(chs)
         IN  /\ Len(pevents') <= 1
             /\ \A i \in 0 .. n - 1 :
                   (piano.scroll_direction = "TopToBottom"
                      /\ InStrip(i, n, x, y)) =>
                      pevents' = << [kind |-> IF chs[i + 1] THEN "UnmuteChannel"
                                              ELSE "MuteChannel",
                                     index |-> i] >>
             /\ (\/ x < 0
                 \/ y < 0
                 \/ \A i \in 0 .. n - 1 : ~InStrip(i, n, x, y)
                 \/ piano.scroll_direction # "TopToBottom") =>
                   pevents' = << >>
             /\ channels' = channels
             /\ piano' = piano]_vars

\* a click on the last pixel of the strip of the muted channel 1 has
\* returned UnmuteChannel(1)
C39_Witness ==
    /\ pop.event = "MouseClick"
    /\ channels.apu[2]
    /\ pevents = << [kind |-> "UnmuteChannel", index |-> 1] >>

\* the window has just handled a tick event
Ticked == pcount' = pcount + 1 /\ pop'.event \in TickEvents

\* C40: a tick event adds slices only when it is the tick of the current
\* polling type; such a tick puts speed_multiplier slices at the front
\* (those that fit), and after the update the history holds at most canvas
\* height - key length - surfboard height entries, whatever the settings
\* are.
C40_HistoryBounded ==
    [][Ticked =>
         IF pop'.event # TickOf(piano.polling_type)
         THEN piano' = piano
         ELSE LET old == piano.time_slices
                  new == piano'.time_slices
                  most == piano.canvas.height - piano.key_length
                              - piano.surfboard_height
                  k == IF piano.speed_multiplier <= Len(new)
                       THEN piano.speed_multiplier ELSE Len(new)
              IN  /\ ~ppanic'
                  /\ Len(new) <= most
                  /\ \A i \in 1 .. k : new[i] = pcount + 1
                  /\ SubSeq(new, k + 1, Len(new)) = SubSeq(old, 1, Len(new) - k)
                  /\ (Len(old) + piano.speed_multiplier <= most =>
                        Len(new) = Len(old) + piano.speed_multiplier)]_vars

(***************************************************************************)
(* Specifications.                                                         *)
(***************************************************************************)
NromSpec == NromInit /\ [][NromNext]_vars

NoiseSpec == NoiseInit /\ [][NoiseNext]_vars

NoiseLfsrSpec == NoiseInit /\ [][LfsrNext]_vars

NoiseRegisterSpec == NoiseInit /\ [][RegisterNext]_vars

NoisePeriodSpec == NoisePeriodInit /\ [][PeriodNext]_vars

DispatchSpec == WorkerInit /\ [][DispatchNext]_vars

\* a running dispatch_event call goes on: the worker thread is scheduled
DispatchFairSpec ==
    /\ WorkerInit
    /\ [][DispatchNext]_vars
    /\ WF_vars(DispatchResponse \/ DispatchReturn)

PacingSpec == WorkerInit /\ [][PacingNext]_vars

WorkerSpec == WorkerInit /\ [][WorkerNext]_vars

\* the worker thread is scheduled: it is the only thread taking the mutex
DisconnectFairSpec ==
    /\ DisconnectInit
    /\ [][DisconnectNext]_vars
    /\ WF_vars(RecvEvent \/ PacingWorker)

PacingFairSpec ==
    /\ WorkerInit
    /\ [][PacingNext]_vars
    /\ SF_vars(PacingWorker)
    /\ WF_vars(AudioThread)

PianoSpec == PianoInit /\ [][PianoNext]_vars

PianoClickSpec == PianoInit /\ [][PianoClickNext]_vars

=============================================================================
